---- MODULE Spec2Model ----
(***************************************************************************)
(* A model of RocksRecordStore (rocks_record_store.cpp): the record store  *)
(* over an ordered key-value engine, its capped visibility manager, the    *)
(* oplog journal thread, the capped deleter and the record cursor.         *)
(***************************************************************************)
EXTENDS Integers, Sequences, FiniteSets, TLC

\* ------------------------------------------------------------------ bounds
\* Record ids (and oplog timestamps) handed out in one run: 1..MaxId.
MaxId == 3
\* The same in the runs that check eventual visibility: 1..MaxLiveId.
MaxLiveId == 4
\* Operations one write unit of work performs.
MaxTxnOps == 2
\* Times the store is closed and reopened in a run.
MaxOpens == 1
\* Shard keys: 1..MaxKey; shardCollection calls in a run that get as far as
\* generating an epoch.
MaxKey == 3
MaxEpoch == 2

Ids == 1 .. MaxId
LiveIds == 1 .. MaxLiveId
Writers == {"w1", "w2"}
\* The one thread of the sequential specifications.
SeqWriters == {"w1"}
Readers == {"r1"}
Waiters == {"x1"}
NoThread == "none"

\* ------------------------------------------------------- program constants
\* RecordId() is the null id (repr 0); RecordId::min() is below every id.
NullId == 0
RecordIdMin == -1
\* The capped deleter removes at most this many records in one pass.
kMaxDocsPerPass == 20000
kSlackCap == 16777216

VARIABLES
    cfg,                  \* the store's parameters and the callers' (see the configurations)
    db,                   \* engine: id -> payload length, the keys under PREFIX
    tracker,              \* engine: id -> LE32(length), the keys under NEXTPREFIX(PREFIX)
    numRecords,           \* _numRecords
    dataSize,             \* _dataSize
    nextIdNum,            \* _nextIdNum
    nextOpTime,           \* the caller's oplog clock: the next timestamp it registers
    cappedOldestKeyHint,  \* _cappedOldestKeyHint
    cappedDeleterMutex,   \* _cappedDeleterMutex: its holder, or NoThread
    uncommittedRecords,   \* CappedVisibilityManager::_uncommittedRecords
    oplog_highestSeen,    \* CappedVisibilityManager::_oplog_highestSeen
    opsWaitingForJournal, \* CappedVisibilityManager::_opsWaitingForJournal
    shuttingDown,         \* _shuttingDown of the store and of its visibility manager
    journal,              \* the journal thread: its position and opsAboutToBeJournaled;
                          \* the position of the thread that joins it
    pc,                   \* each writer's position
    ru,                   \* each writer's recovery unit
    pass,                 \* each writer's capped deleter pass (its locals and sub-transaction)
    cur,                  \* each reader's recovery unit and cursor
    waiter,               \* each waitForAllEarlierOplogWritesToBeVisible caller
    hist,                 \* history: what has been allocated, committed, returned
    catalog               \* the sharding catalog: the shard registry, config.shards,
                          \* config.chunks, config.collections, the changelog, and
                          \* the shardCollection call in progress

vars == <<cfg, db, tracker, numRecords, dataSize, nextIdNum, nextOpTime,
          cappedOldestKeyHint, cappedDeleterMutex, uncommittedRecords,
          oplog_highestSeen, opsWaitingForJournal, shuttingDown, journal,
          pc, ru, pass, cur, waiter, hist, catalog>>

\* ------------------------------------------------------------ small helpers
EmptyFn == [x \in {} |-> 0]

MinOf(S) == CHOOSE x \in S : \A y \in S : x <= y
MaxOf(S) == CHOOSE x \in S : \A y \in S : x >= y
Min2(a, b) == IF a <= b THEN a ELSE b

FnPut(f, k, v) == [x \in (DOMAIN f) \cup {k} |-> IF x = k THEN v ELSE f[x]]
FnDel(f, k) == [x \in (DOMAIN f) \ {k} |-> f[x]]

RECURSIVE SumOver(_, _)
SumOver(f, S) ==
    IF S = {} THEN 0
    ELSE LET k == CHOOSE x \in S : TRUE IN f[k] + SumOver(f, S \ {k})

SeqRemove(s, e) == SelectSeq(s, LAMBDA x : x # e)
SeqElems(s) == {s[i] : i \in 1 .. Len(s)}
Last(s) == s[Len(s)]
Front(s) == SubSeq(s, 1, Len(s) - 1)

\* ------------------------------------------------------ RocksOplogKeyTracker
\* insertKey stores the length as four little-endian bytes.
EncodeSize(len) == [i \in 1 .. 4 |-> (len \div (256 ^ (i - 1))) % 256]
decodeSize(value) ==
    value[1] + 256 * value[2] + 65536 * value[3] + 16777216 * value[4]

\* ------------------------------------------------------------ the engine
\* A write batch: puts (id -> value) and deletes, per prefix.
WbPut(b, k, v) == [b EXCEPT !.put = FnPut(@, k, v), !.del = @ \ {k}]
WbDelete(b, k) == [b EXCEPT !.put = FnDel(@, k), !.del = @ \cup {k}]
TrackerPut(b, k, v) == [b EXCEPT !.tput = FnPut(@, k, v), !.tdel = @ \ {k}]
TrackerDelete(b, k) == [b EXCEPT !.tput = FnDel(@, k), !.tdel = @ \cup {k}]

\* A committed state with a batch applied.
ApplyBatch(f, put, del) ==
    [x \in ((DOMAIN f) \ del) \cup (DOMAIN put) |->
        IF x \in DOMAIN put THEN put[x] ELSE f[x]]

\* Iterator positioning over a view (id -> value); NullId stands for !Valid().
SeekToFirst(view) == IF DOMAIN view = {} THEN NullId ELSE MinOf(DOMAIN view)
SeekToLast(view) == IF DOMAIN view = {} THEN NullId ELSE MaxOf(DOMAIN view)
Seek(view, target) ==
    LET S == {k \in DOMAIN view : k >= target}
    IN IF S = {} THEN NullId ELSE MinOf(S)
IterNext(view, pos) ==
    LET S == {k \in DOMAIN view : k > pos}
    IN IF pos = NullId \/ S = {} THEN NullId ELSE MinOf(S)
IterPrev(view, pos) ==
    LET S == {k \in DOMAIN view : k < pos}
    IN IF pos = NullId \/ S = {} THEN NullId ELSE MaxOf(S)

\* ------------------------------------------------------- recovery units
EmptyRU ==
    [put |-> EmptyFn, del |-> {}, tput |-> EmptyFn, tdel |-> {},
     dNum |-> 0, dSize |-> 0, changes |-> <<>>, written |-> {},
     hasSnap |-> FALSE, snapDb |-> EmptyFn, snapTr |-> EmptyFn, stale |-> {},
     reg |-> NullId, nops |-> 0,
     \* history: the committed state the unit of work started from, the ids it
     \* inserted, the ids its deleter passes evicted, how it ended
     before |-> [db |-> EmptyFn, numRecords |-> 0, dataSize |-> 0],
     ins |-> {}, evicted |-> {}, outcome |-> "none",
     \* history: whether the last operation of the unit of work was a truncate,
     \* whether the thread's last insert failed with BadValue
     truncated |-> FALSE, badValue |-> FALSE,
     \* history: the key on which deleteRecord or updateRecord threw
     threwOn |-> NullId]

EmptyPass ==
    [justInserted |-> NullId, sizeOverCap |-> 0, sizeSaved |-> 0,
     docsOverCap |-> 0, docsRemoved |-> 0, iter |-> NullId,
     sub |-> EmptyRU,
     \* history: whether the thread's last cappedDeleteAsNeeded call waited for
     \* the mutex as back-pressure
     waited |-> FALSE,
     \* history: the exception the thread's last pass ended with
     raised |-> "none",
     \* history: the ids the pass has handed to aboutToDeleteCapped, in order;
     \* the id on which the callback failed and the deletes staged by then
     called |-> <<>>, failedOn |-> NullId, stagedAtFailure |-> {}]

\* What a recovery unit reads: its snapshot with its own write batch on top.
RuView(r) == ApplyBatch(r.snapDb, r.put, r.del)
RuTrackerView(r) == ApplyBatch(r.snapTr, r.tput, r.tdel)

\* RocksRecoveryUnit::snapshot(): taken on the first read, kept until the end.
WithSnapshot(r) ==
    IF r.hasSnap THEN r
    ELSE [r EXCEPT !.hasSnap = TRUE, !.snapDb = db, !.snapTr = tracker, !.stale = {}]

\* The keys some other open transaction has registered.
OwnedByOthers(t, sub) ==
    UNION {IF u = t /\ ~sub THEN {} ELSE ru[u].written : u \in Writers}
        \cup UNION {IF u = t /\ sub THEN {} ELSE pass[u].sub.written : u \in Writers}

\* transaction()->registerWrite(key): rejected when another open transaction has
\* written the key, or it was committed after this transaction's snapshot.
registerWriteOK(t, sub, r, key) ==
    /\ key \notin OwnedByOthers(t, sub)
    /\ ~(r.hasSnap /\ key \in r.stale)

\* The history of the ids, where it is kept.
Remember(h) == IF cfg.history \in {"none", "calls"} THEN hist ELSE h

\* The recovery unit an operation of thread t works on: a fresh one when t is
\* not in a unit of work.
Txn(t) ==
    IF pc[t] # "idle" THEN ru[t]
    ELSE IF cfg.history = "all"
    THEN [EmptyRU EXCEPT !.before = [db |-> db, numRecords |-> numRecords,
                                     dataSize |-> dataSize]]
    ELSE EmptyRU

\* The recovery unit after its unit of work ended: empty but for the changes
\* still to run and, where the history is kept, the history.
Ended(r, outcome) ==
    IF cfg.history = "all"
    THEN [EmptyRU EXCEPT !.changes = r.changes, !.before = r.before, !.ins = r.ins,
                         !.evicted = r.evicted, !.outcome = outcome,
                         !.truncated = r.truncated]
    ELSE IF cfg.history = "ops"
    THEN [EmptyRU EXCEPT !.changes = r.changes, !.outcome = outcome,
                         !.truncated = r.truncated]
    ELSE [EmptyRU EXCEPT !.changes = r.changes]

\* ------------------------------------------------- CappedVisibilityManager
\* isCappedHidden with the front id itself left readable.
isCappedHiddenStrict(record) ==
    IF uncommittedRecords = <<>> THEN FALSE
    ELSE Head(uncommittedRecords) < record

isCappedHidden(record) ==
    IF uncommittedRecords = <<>> THEN FALSE
    ELSE Head(uncommittedRecords) <= record

\* CappedVisibilityManager::oplogStartHack(): the oplog read ceiling.
vmOplogStartHack ==
    IF uncommittedRecords = <<>> THEN oplog_highestSeen
    ELSE Head(uncommittedRecords)

lowestCappedHiddenRecord ==
    IF uncommittedRecords = <<>> THEN NullId ELSE Head(uncommittedRecords)

\* updateHighestSeen: the unlocked test reads a value no newer than the one
\* under the lock, so the outcome is the locked test's.
updateHighestSeen(record) ==
    IF record > oplog_highestSeen THEN record ELSE oplog_highestSeen

\* An erase that notifies nobody.
NotifyNobody == waiter

\* _opsBecameVisibleCV.notify_all()
NotifyOpsBecameVisible ==
    [w \in Waiters |->
        IF waiter[w].pc = "blocked" THEN [waiter[w] EXCEPT !.pc = "check"]
        ELSE waiter[w]]

\* _opsWaitingForJournalCV.notify_one()
NotifyJournal ==
    IF journal.pc = "blocked" THEN [journal EXCEPT !.pc = "check"] ELSE journal

\* dealtWithCappedRecord leaving the id in the set.
EraseNothing(it) == uncommittedRecords

\* dealtWithCappedRecord erasing the id and every id below it.
EraseUpTo(it) == SelectSeq(uncommittedRecords, LAMBDA x : x > it)

\* The erase branch of dealtWithCappedRecord.
EraseUncommitted(it) == SeqRemove(uncommittedRecords, it)

\* dealtWithCappedRecord that defers every committed oplog id.
DefersEveryOplogCommit(it, didCommit) == didCommit /\ cfg.isOplog

\* dealtWithCappedRecord that erases at once whatever the id.
DefersNever(it, didCommit) == FALSE

\* Whether dealtWithCappedRecord defers the erase to the journal thread.
DefersToJournal(it, didCommit) ==
    didCommit /\ cfg.isOplog /\ it # oplog_highestSeen

dealtWithCappedRecord(it, didCommit) ==
    IF DefersToJournal(it, didCommit)
    THEN /\ opsWaitingForJournal' = Append(opsWaitingForJournal, it)
         /\ journal' = IF opsWaitingForJournal = <<>> THEN NotifyJournal ELSE journal
         /\ UNCHANGED <<uncommittedRecords, waiter>>
    ELSE /\ uncommittedRecords' = EraseUncommitted(it)
         /\ waiter' = NotifyOpsBecameVisible
         /\ UNCHANGED <<opsWaitingForJournal, journal>>

\* ------------------------------------------------------------ RocksRecordStore
cappedMaxSizeSlackFromSize(cappedMaxSize) == Min2(cappedMaxSize \div 10, kSlackCap)

\* _nextId() without the add.
NextIdUnchanged == nextIdNum

\* An id drawn before the visibility mutex is taken: by the time it is appended
\* a later one may be in the list.
NextIdValueStale == IF nextIdNum > 1 THEN nextIdNum - 1 ELSE nextIdNum

\* _nextId(): fetchAndAdd(1) returns the value before the add.
NextIdValue == nextIdNum
NextIdAfter == nextIdNum + 1

cappedAndNeedDelete(dataSizeDelta, numRecordsDelta) ==
    \/ dataSize + dataSizeDelta > cfg.cappedMaxSize
    \/ (cfg.cappedMaxDocs # -1 /\ numRecords + numRecordsDelta > cfg.cappedMaxDocs)

\* ------------------------------------------------- ShardingCatalogManager
\* Shard keys are the integers 1 .. MaxKey between the global minimum and the
\* global maximum key of the pattern.
globalMin == 0
globalMax == MaxKey + 1
Keys == 1 .. MaxKey
Namespaces == {"db.a", "db.b"}
ShardIds == {"s1", "s2", "s3"}
\* What an out-of-bounds read of the candidate list may yield.
GarbageShardId == "garbage"

RECURSIVE SortedSeq(_)
SortedSeq(S) ==
    IF S = {} THEN <<>> ELSE <<MinOf(S)>> \o SortedSeq(S \ {MinOf(S)})

\* The initial points as given, in their order and with their duplicates.
orderedPtsAsGiven(initPoints) == initPoints

\* orderedPts: the initial points in a BSONObj set, unique and ordered.
orderedPts(initPoints) == SortedSeq(SeqElems(initPoints))

NoCall ==
    [pc |-> "idle", ns |-> "", primary |-> "", initPoints |-> <<>>,
     splitPoints |-> <<>>, shardIds |-> <<>>, primaryDraining |-> FALSE, i |-> 0,
     version |-> [major |-> 0, minor |-> 0, epoch |-> 0],
     collVersion |-> [major |-> 0, minor |-> 0, epoch |-> 0],
     error |-> "none",
     \* history: the chunks the call has written, in order
     wrote |-> <<>>]

EmptyCatalog ==
    [shards |-> <<>>, draining |-> {}, chunks |-> {}, collections |-> EmptyFn,
     changelog |-> <<>>, nextEpoch |-> 1, call |-> NoCall,
     \* history: the namespaces with chunks left by an attempt that failed
     partial |-> {}]

\* The count of checkForExistingChunks passes whatever config.chunks holds.
NoExistingChunksCheck(ns) == TRUE

\* checkForExistingChunks: whether the count for the namespace is 0.
checkForExistingChunks(ns) == {c \in catalog.chunks : c.ns = ns} = {}

\* std::remove / erase of the primary shard from the list.
WithoutShard(ids, id) == SelectSeq(ids, LAMBDA x : x # id)

\* The lambda of _createFirstChunks.
getPrimaryOrFirstNonDrainingShard(primary, primaryDraining) ==
    LET allShardIds == catalog.shards
    IN IF primaryDraining
       THEN IF allShardIds[1] = primary /\ Len(allShardIds) > 1
            THEN allShardIds[2] ELSE allShardIds[1]
       ELSE primary

\* The split points _createFirstChunks cuts at: those selectChunkSplitPoints
\* picked when none were given, else the given ones, unique and ordered.
SplitPointsOf(initPoints, picked) ==
    IF initPoints = <<>> THEN picked ELSE orderedPts(initPoints)

\* The candidate shards of _createFirstChunks.
ShardIdsOf(primary, primaryDraining, initPoints, distribute, numObjects) ==
    IF initPoints = <<>>
    THEN IF numObjects = 0 /\ distribute
         THEN IF primaryDraining /\ Len(catalog.shards) > 1
              THEN WithoutShard(catalog.shards, primary)
              ELSE catalog.shards
         ELSE <<getPrimaryOrFirstNonDrainingShard(primary, primaryDraining)>>
    ELSE IF distribute
         THEN IF primaryDraining
              THEN WithoutShard(catalog.shards, primary)
              ELSE catalog.shards
         ELSE <<getPrimaryOrFirstNonDrainingShard(primary, primaryDraining)>>

\* Everything but the catalog.
storeState ==
    <<cfg, db, tracker, numRecords, dataSize, nextIdNum, nextOpTime,
      cappedOldestKeyHint, cappedDeleterMutex, uncommittedRecords,
      oplog_highestSeen, opsWaitingForJournal, shuttingDown, journal,
      pc, ru, pass, cur, waiter, hist>>

\* shardCollection up to the loop of _createFirstChunks: the primary shard is
\* looked up, config.chunks is checked, the start is logged, the split points
\* and the candidate shards are worked out, the epoch is generated. picked is
\* what selectChunkSplitPoints returns when it is asked.
shardCollection(ns, primary, initPoints, distribute, numObjects, picked) ==
    /\ catalog.call.pc = "idle"
    /\ catalog.nextEpoch <= MaxEpoch
    /\ SeqElems(initPoints) \cup SeqElems(picked) \subseteq Keys
    /\ picked # <<>> => initPoints = <<>> /\ numObjects > 0
    /\ LET call == [NoCall EXCEPT !.ns = ns, !.primary = primary,
                                  !.initPoints = initPoints]
           primaryDraining == primary \in catalog.draining
       IN IF primary \notin SeqElems(catalog.shards)
          THEN catalog' = [catalog EXCEPT
                              !.call = [call EXCEPT !.pc = "failed",
                                                    !.error = "ShardNotFound"]]
          ELSE IF ~checkForExistingChunks(ns)
          THEN catalog' = [catalog EXCEPT
                              !.call = [call EXCEPT
                                          !.pc = "failed",
                                          !.error = "ManualInterventionRequired"]]
          ELSE catalog' = [catalog EXCEPT
                  !.changelog = Append(@, [what |-> "shardCollection.start", ns |-> ns]),
                  !.nextEpoch = @ + 1,
                  !.call = [call EXCEPT
                              !.pc = "chunks",
                              !.primaryDraining = primaryDraining,
                              !.splitPoints = SplitPointsOf(initPoints, picked),
                              !.shardIds = ShardIdsOf(primary, primaryDraining,
                                                      initPoints, distribute, numObjects),
                              !.version = [major |-> 1, minor |-> 0,
                                           epoch |-> catalog.nextEpoch]]]
    /\ UNCHANGED storeState

\* Chunk i of the loop, assigned to the given shard.
ChunkFor(call, shard) ==
    LET i == call.i
        n == Len(call.splitPoints)
    IN [ns |-> call.ns,
        min |-> IF i = 0 THEN globalMin ELSE call.splitPoints[i],
        max |-> IF i < n THEN call.splitPoints[i + 1] ELSE globalMax,
        shard |-> shard,
        version |-> IF i > 0 THEN [call.version EXCEPT !.minor = @ + 1]
                    ELSE call.version]

\* One turn of the loop whose insertConfigDocument succeeds. With an empty
\* candidate list, i % shardIds.size() divides by zero: the process is killed,
\* or the index is some number and the read past the end of the list yields
\* whatever is there.
WriteChunk ==
    /\ catalog.call.pc = "chunks"
    /\ catalog.call.i <= Len(catalog.call.splitPoints)
    /\ LET call == catalog.call
       IN IF call.shardIds = <<>>
          THEN \/ catalog' = [catalog EXCEPT !.call.pc = "crashed"]
               \/ LET chunk == ChunkFor(call, GarbageShardId)
                  IN catalog' = [catalog EXCEPT
                                    !.chunks = @ \cup {chunk},
                                    !.call.version = chunk.version,
                                    !.call.wrote = Append(@, chunk),
                                    !.call.i = @ + 1]
          ELSE LET chunk == ChunkFor(call,
                                     call.shardIds[(call.i % Len(call.shardIds)) + 1])
               IN catalog' = [catalog EXCEPT
                                 !.chunks = @ \cup {chunk},
                                 !.call.version = chunk.version,
                                 !.call.wrote = Append(@, chunk),
                                 !.call.i = @ + 1]
    /\ UNCHANGED storeState

\* insertConfigDocument fails: the exception leaves shardCollection with the
\* chunks written so far in config.chunks.
WriteChunkFails ==
    /\ catalog.call.pc = "chunks"
    /\ catalog.call.i <= Len(catalog.call.splitPoints)
    /\ catalog.call.shardIds # <<>>
    /\ catalog' = [catalog EXCEPT
                      !.call.pc = "failed", !.call.error = "InsertFailed",
                      !.partial = IF catalog.call.wrote # <<>>
                                  THEN @ \cup {catalog.call.ns} ELSE @]
    /\ UNCHANGED storeState

\* _createFirstChunks returns the version; the collection entry is upserted,
\* the primary is told its version (a failure is only logged), the end is
\* logged.
WriteCollectionEntry ==
    /\ catalog.call.pc = "chunks"
    /\ catalog.call.i > Len(catalog.call.splitPoints)
    /\ LET call == catalog.call
       IN catalog' = [catalog EXCEPT
              !.collections = FnPut(@, call.ns, [epoch |-> call.version.epoch,
                                                  updatedAt |-> call.version]),
              !.changelog = Append(@, [what |-> "shardCollection.end", ns |-> call.ns]),
              !.call.collVersion = call.version,
              !.call.pc = "done"]
    /\ UNCHANGED storeState

\* updateShardingCatalogEntryForCollection fails: every chunk is written, the
\* collection entry is not.
WriteCollectionEntryFails ==
    /\ catalog.call.pc = "chunks"
    /\ catalog.call.i > Len(catalog.call.splitPoints)
    /\ catalog' = [catalog EXCEPT
                      !.call.pc = "failed", !.call.error = "UpdateFailed",
                      !.call.collVersion = catalog.call.version,
                      !.partial = @ \cup {catalog.call.ns}]
    /\ UNCHANGED storeState

\* The caller has its answer; the next call may begin.
ShardCollectionReturns ==
    /\ catalog.call.pc \in {"failed", "done"}
    /\ catalog' = [catalog EXCEPT !.call = NoCall]
    /\ UNCHANGED storeState

\* The manual intervention: the chunks of a namespace are deleted from
\* config.chunks.
RemoveChunks(ns) ==
    /\ catalog.call.pc = "idle"
    /\ \E c \in catalog.chunks : c.ns = ns
    /\ catalog' = [catalog EXCEPT !.chunks = {c \in @ : c.ns # ns},
                                  !.collections = FnDel(@, ns),
                                  !.partial = @ \ {ns}]
    /\ UNCHANGED storeState

\* ------------------------------------------------------------------ Init
\* The stores of the specifications: the constructor's parameters, the record
\* sets the store may be opened over (existing), the payload lengths the callers
\* offer (lens), the last id handed out in a run (lastId), and the history
\* kept: none, that of the ids ("ids"), or that of the ids and of each unit of
\* work ("all").
PlainCfg ==
    [isCapped |-> FALSE, isOplog |-> FALSE, cappedMaxSize |-> -1,
     cappedMaxDocs |-> -1, hasBackgroundThread |-> FALSE, history |-> "none",
     lastId |-> MaxId,
     existing |-> {EmptyFn}, lens |-> {1, 2}]
CappedSizeCfg ==
    [isCapped |-> TRUE, isOplog |-> FALSE, cappedMaxSize |-> 2,
     cappedMaxDocs |-> -1, hasBackgroundThread |-> FALSE, history |-> "none",
     lastId |-> MaxId,
     existing |-> {EmptyFn}, lens |-> {1, 2}]
CappedDocsCfg ==
    [isCapped |-> TRUE, isOplog |-> FALSE, cappedMaxSize |-> 8,
     cappedMaxDocs |-> 2, hasBackgroundThread |-> FALSE, history |-> "none",
     lastId |-> MaxId,
     existing |-> {EmptyFn}, lens |-> {1}]
\* The oplog is opened empty or over one record that an update has grown past
\* the size cap (updateRecord does not test the length), so that the first
\* inserts already find the store over its cap.
OplogCfg ==
    [isCapped |-> TRUE, isOplog |-> TRUE, cappedMaxSize |-> 1,
     cappedMaxDocs |-> -1, hasBackgroundThread |-> FALSE, history |-> "none",
     lastId |-> MaxId,
     existing |-> {EmptyFn, 1 :> 2}, lens |-> {1}]

EmptyCursor ==
    [open |-> FALSE, stage |-> "none", forward |-> TRUE, hasSnap |-> FALSE,
     snapDb |-> EmptyFn, readTill |-> NullId, startIterator |-> NullId,
     readUntil |-> NullId, hasIter |-> FALSE, iter |-> NullId,
     lastLoc |-> NullId, eof |-> FALSE, skipNextAdvance |-> FALSE,
     needFirstSeek |-> TRUE,
     \* history: the ids next() returned since the cursor was last positioned by
     \* seekExact or created, the last record any call returned and
     \* whether it was capped-hidden then, the inserts committed at the snapshot
     returned |-> <<>>, lastRet |-> [op |-> "none", id |-> NullId, hidden |-> FALSE],
     committedAtSnap |-> {},
     \* history: the reader's last call of oplogStartHack: its argument, what it
     \* returned (<<>> for boost::none), the tracker keys it read
     hack |-> [called |-> FALSE, at |-> NullId, got |-> <<>>, keys |-> {}],
     \* history: the cursor's last restore(): the record it was positioned on (if
     \* it was), what restore returned, and what the first next() after it
     \* returned (<<>> for none) and whether curr() withheld a record then
     rest |-> [called |-> FALSE, positioned |-> FALSE, loc |-> NullId, ok |-> TRUE,
               nexted |-> FALSE, got |-> <<>>, withheld |-> FALSE],
     \* the locker of the reader's operation context ("none" before its first
     \* getCursor); history: whether the last getCursor found a snapshot open
     \* and whether it threw WriteConflictException
     lock |-> "none", hadSnap |-> FALSE, threw |-> FALSE]

EmptyHist ==
    [allocated |-> <<>>, committed |-> {}, removed |-> {}, opens |-> 0,
     \* the last cappedTruncateAfter: the ids it handed to aboutToDeleteCapped, in
     \* order, the id on which the callback failed, the live ids before and after
     lastTruncate |-> [called |-> <<>>, failedOn |-> NullId, before |-> {},
                      after |-> {}]]

\* A scan of the prefix that takes the number of records for the last id.
CountOf(e) == Cardinality(DOMAIN e)

\* The constructor over the records e: the next id follows the last record, the
\* highest seen id is the last record, the counters are the stored ones.
LastIdOf(e) == IF DOMAIN e = {} THEN NullId ELSE MaxOf(DOMAIN e)

\* A stored counter as the constructor takes it.
LoadCounter(persisted) == IF persisted < 0 THEN 0 ELSE persisted

InitStore(c) ==
    \E e \in c.existing :
        /\ cfg = c
        /\ db = e
        /\ tracker = IF c.isOplog THEN [k \in DOMAIN e |-> EncodeSize(e[k])] ELSE EmptyFn
        /\ numRecords = Cardinality(DOMAIN e)
        /\ dataSize = SumOver(e, DOMAIN e)
        /\ nextIdNum = LastIdOf(e) + 1
        /\ nextOpTime = LastIdOf(e) + 1
        /\ cappedOldestKeyHint = NullId
        /\ cappedDeleterMutex = NoThread
        /\ uncommittedRecords = <<>>
        /\ oplog_highestSeen =
               IF c.isCapped /\ DOMAIN e # {} THEN LastIdOf(e) ELSE RecordIdMin
        /\ opsWaitingForJournal = <<>>
        /\ shuttingDown = FALSE
        /\ journal = [pc |-> IF c.isOplog THEN "check" ELSE "none", ops |-> <<>>,
                      covers |-> {}, last |-> <<>>, join |-> "none", saw |-> "none"]
        /\ pc = [t \in Writers |-> "idle"]
        /\ ru = [t \in Writers |-> EmptyRU]
        /\ pass = [t \in Writers |-> EmptyPass]
        /\ cur = [r \in Readers |-> EmptyCursor]
        /\ waiter = [w \in Waiters |-> [pc |-> "idle", waitingFor |-> NullId, waited |-> FALSE]]
        /\ hist = IF c.history = "none" THEN EmptyHist
                  ELSE [EmptyHist EXCEPT !.committed = DOMAIN e]

\* A store on its own: no sharding catalog.
InitWith(c) == InitStore(c) /\ catalog = EmptyCatalog

engineVars == <<db, tracker, numRecords, dataSize>>
visVars == <<uncommittedRecords, oplog_highestSeen, opsWaitingForJournal>>
storeVars == <<nextIdNum, cappedOldestKeyHint, cappedDeleterMutex>>

\* ----------------------------------------------------- oplogDiskLocRegister
\* The caller draws the next timestamp and registers it, in timestamp order.
oplogDiskLocRegister(t) ==
    /\ cfg.isOplog
    /\ pc[t] \in {"idle", "txn"}
    /\ Txn(t).reg = NullId
    /\ Txn(t).nops < MaxTxnOps
    /\ nextOpTime <= cfg.lastId
    /\ nextOpTime' = nextOpTime + 1
    /\ uncommittedRecords' = Append(uncommittedRecords, nextOpTime)
    /\ oplog_highestSeen' = nextOpTime
    /\ ru' = [ru EXCEPT ![t] = [Txn(t) EXCEPT !.reg = nextOpTime,
                                               !.changes = Append(@, nextOpTime)]]
    /\ pc' = [pc EXCEPT ![t] = "txn"]
    /\ hist' = Remember([hist EXCEPT !.allocated = Append(@, nextOpTime)])
    /\ UNCHANGED <<cfg, catalog, engineVars, storeVars, opsWaitingForJournal, shuttingDown,
                   journal, pass, cur, waiter>>

\* ------------------------------------------------------------ insertRecord
\* The staged part of insertRecord: the Put, the tracker entry, the counters.
StageInsert(r, loc, len) ==
    LET a == WbPut(r, loc, len)
        b == IF cfg.isOplog THEN TrackerPut(a, loc, EncodeSize(len)) ELSE a
    IN [b EXCEPT !.dNum = @ + 1, !.dSize = @ + len, !.ins = @ \cup {loc},
                 !.nops = @ + 1, !.reg = NullId, !.truncated = FALSE,
                 !.badValue = FALSE]

\* Where insertRecord and updateRecord go next: cappedDeleteAsNeeded.
EnterCappedDelete(t, loc) ==
    /\ pc' = [pc EXCEPT ![t] = IF cfg.isCapped THEN "capCheck" ELSE "txn"]
    /\ pass' = [pass EXCEPT ![t] =
                  IF cfg.isCapped THEN [EmptyPass EXCEPT !.justInserted = loc]
                  ELSE EmptyPass]

\* An insertRecord that lets every length through.
FitsAlways(len) == FALSE

\* The test insertRecord starts with.
TooLarge(len) == cfg.isCapped /\ len > cfg.cappedMaxSize

insertRecord(t, len) ==
    /\ pc[t] \in {"idle", "txn"}
    /\ IF TooLarge(len)
       THEN \* BadValue
            /\ ru' = [ru EXCEPT ![t].badValue = cfg.history \in {"ops", "all"}]
            /\ UNCHANGED <<cfg, catalog, engineVars, visVars, storeVars, nextOpTime,
                           shuttingDown, journal, pc, pass, cur, waiter, hist>>
       ELSE IF cfg.isOplog
       THEN /\ ru[t].reg # NullId
            /\ oplog_highestSeen' = updateHighestSeen(ru[t].reg)
            /\ ru' = [ru EXCEPT ![t] = StageInsert(@, ru[t].reg, len)]
            /\ EnterCappedDelete(t, ru[t].reg)
            /\ UNCHANGED <<cfg, catalog, engineVars, storeVars, nextOpTime, uncommittedRecords,
                           opsWaitingForJournal, shuttingDown, journal, cur, waiter,
                           hist>>
       ELSE /\ Txn(t).nops < MaxTxnOps
            /\ nextIdNum <= cfg.lastId
            /\ nextIdNum' = NextIdAfter
            /\ IF cfg.isCapped
               THEN \* getNextAndAddUncommittedRecord, under the visibility mutex
                    /\ uncommittedRecords' = Append(uncommittedRecords, NextIdValue)
                    /\ oplog_highestSeen' = NextIdValue
                    /\ ru' = [ru EXCEPT ![t] =
                                [StageInsert(Txn(t), NextIdValue, len)
                                    EXCEPT !.changes = Append(@, NextIdValue)]]
               ELSE /\ ru' = [ru EXCEPT ![t] = StageInsert(Txn(t), NextIdValue, len)]
                    /\ UNCHANGED <<uncommittedRecords, oplog_highestSeen>>
            /\ EnterCappedDelete(t, NextIdValue)
            /\ hist' = Remember([hist EXCEPT !.allocated = Append(@, NextIdValue)])
            /\ UNCHANGED <<cfg, catalog, engineVars, cappedOldestKeyHint, cappedDeleterMutex,
                           nextOpTime, opsWaitingForJournal, shuttingDown, journal,
                           cur, waiter>>

\* ------------------------------------------------- cappedDeleteAsNeeded_inlock
\* The start of a pass: the recovery unit is swapped for a fresh one, the totals
\* are read with the caller's deltas, the iterator is opened and sought to the hint.
BeginPass(t, p) ==
    LET total == dataSize + ru[t].dSize
        recs == numRecords + ru[t].dNum
        s == WithSnapshot(EmptyRU)
        view == IF cfg.isOplog THEN s.snapTr ELSE s.snapDb
    IN [p EXCEPT
          !.sizeOverCap = IF total > cfg.cappedMaxSize THEN total - cfg.cappedMaxSize ELSE 0,
          !.docsOverCap = IF cfg.cappedMaxDocs # -1 /\ recs > cfg.cappedMaxDocs
                          THEN recs - cfg.cappedMaxDocs ELSE 0,
          !.sizeSaved = 0, !.docsRemoved = 0,
          !.sub = s,
          !.iter = Seek(view, cappedOldestKeyHint)]

Return0(t) ==
    /\ pc' = [pc EXCEPT ![t] = "txn"]
    /\ pass' = [pass EXCEPT ![t] = EmptyPass]

\* ----------------------------------------------------- cappedDeleteAsNeeded
cappedDeleteAsNeeded(t) ==
    /\ pc[t] = "capCheck"
    /\ LET dataSizeDelta == IF cfg.isOplog THEN 0 ELSE ru[t].dSize
           numRecordsDelta == IF cfg.isOplog THEN 0 ELSE ru[t].dNum
           slack == cappedMaxSizeSlackFromSize(cfg.cappedMaxSize)
       IN IF ~cappedAndNeedDelete(dataSizeDelta, numRecordsDelta)
          THEN Return0(t) /\ UNCHANGED cappedDeleterMutex
          ELSE IF cfg.cappedMaxDocs # -1
          THEN \* lock.lock()
               /\ pc' = [pc EXCEPT ![t] = "lockWait"]
               /\ UNCHANGED <<pass, cappedDeleterMutex>>
          ELSE IF cfg.hasBackgroundThread
          THEN IF dataSize - cfg.cappedMaxSize < slack \/ cappedDeleterMutex = NoThread
               THEN Return0(t) /\ UNCHANGED cappedDeleterMutex
               ELSE \* try_lock_for(200 ms) as back-pressure
                    /\ pc' = [pc EXCEPT ![t] = "backPressure"]
                    /\ UNCHANGED <<pass, cappedDeleterMutex>>
          ELSE IF cappedDeleterMutex = NoThread
          THEN \* try_lock() succeeded
               /\ cappedDeleterMutex' = t
               /\ pass' = [pass EXCEPT ![t] = BeginPass(t, @)]
               /\ pc' = [pc EXCEPT ![t] = "pass"]
          ELSE IF dataSize - cfg.cappedMaxSize < slack
          THEN Return0(t) /\ UNCHANGED cappedDeleterMutex
          ELSE \* try_lock_for(200 ms)
               /\ pc' = [pc EXCEPT ![t] = "lockTimed"]
               /\ UNCHANGED <<pass, cappedDeleterMutex>>
    /\ UNCHANGED <<cfg, catalog, engineVars, nextIdNum, cappedOldestKeyHint, nextOpTime,
                   visVars, shuttingDown, journal, ru, cur, waiter, hist>>

\* A lock() that returns whether or not the mutex is free.
DeleterLockUnguarded(t) ==
    /\ pc[t] = "lockWait"
    /\ cappedDeleterMutex' = t
    /\ pass' = [pass EXCEPT ![t] = BeginPass(t, @)]
    /\ pc' = [pc EXCEPT ![t] = "pass"]
    /\ UNCHANGED <<cfg, catalog, engineVars, nextIdNum, cappedOldestKeyHint, nextOpTime,
                   visVars, shuttingDown, journal, ru, cur, waiter, hist>>

\* lock.lock() returns.
DeleterLock(t) ==
    /\ pc[t] = "lockWait"
    /\ cappedDeleterMutex = NoThread
    /\ cappedDeleterMutex' = t
    /\ pass' = [pass EXCEPT ![t] = BeginPass(t, @)]
    /\ pc' = [pc EXCEPT ![t] = "pass"]
    /\ UNCHANGED <<cfg, catalog, engineVars, nextIdNum, cappedOldestKeyHint, nextOpTime,
                   visVars, shuttingDown, journal, ru, cur, waiter, hist>>

\* try_lock_for(200 ms) returns: with the lock, or without it after the timeout.
DeleterTimedLock(t) ==
    /\ pc[t] = "lockTimed"
    /\ LET slack == cappedMaxSizeSlackFromSize(cfg.cappedMaxSize)
       IN IF cappedDeleterMutex # NoThread
          THEN Return0(t) /\ UNCHANGED cappedDeleterMutex
          ELSE IF dataSize - cfg.cappedMaxSize < 2 * slack
          THEN Return0(t) /\ UNCHANGED cappedDeleterMutex
          ELSE /\ cappedDeleterMutex' = t
               /\ pass' = [pass EXCEPT ![t] = BeginPass(t, @)]
               /\ pc' = [pc EXCEPT ![t] = "pass"]
    /\ UNCHANGED <<cfg, catalog, engineVars, nextIdNum, cappedOldestKeyHint, nextOpTime,
                   visVars, shuttingDown, journal, ru, cur, waiter, hist>>

\* A back-pressure wait that goes on to a deleter pass when it gets the mutex.
BackPressureThenPass(t) ==
    /\ pc[t] = "backPressure"
    /\ IF cappedDeleterMutex # NoThread
       THEN Return0(t) /\ UNCHANGED cappedDeleterMutex
       ELSE /\ cappedDeleterMutex' = t
            /\ pass' = [pass EXCEPT ![t] = BeginPass(t, @)]
            /\ pc' = [pc EXCEPT ![t] = "pass"]
    /\ UNCHANGED <<cfg, catalog, engineVars, nextIdNum, cappedOldestKeyHint, nextOpTime,
                   visVars, shuttingDown, journal, ru, cur, waiter, hist>>

\* The back-pressure wait of a foreground caller beside a background deleter.
BackPressureDone(t) ==
    /\ pc[t] = "backPressure"
    /\ pc' = [pc EXCEPT ![t] = "txn"]
    /\ pass' = [pass EXCEPT ![t] = [EmptyPass EXCEPT !.waited = TRUE]]
    /\ UNCHANGED <<cfg, catalog, engineVars, storeVars, nextOpTime, visVars, shuttingDown,
                   journal, ru, cur, waiter, hist>>

\* The while condition without the document count.
PassContinuesSizeOnly(p) ==
    /\ p.sizeSaved < p.sizeOverCap
    /\ p.docsRemoved < kMaxDocsPerPass
    /\ p.iter # NullId

\* The while condition of the pass.
PassContinues(p) ==
    /\ (p.sizeSaved < p.sizeOverCap \/ p.docsRemoved < p.docsOverCap)
    /\ p.docsRemoved < kMaxDocsPerPass
    /\ p.iter # NullId

\* What the pass iterates: the tracker for an oplog, else the collection; the
\* iterator reads the sub-transaction's snapshot under its own deletes.
PassView(p) ==
    IF cfg.isOplog THEN RuTrackerView(p.sub) ELSE RuView(p.sub)

\* The size the pass counts for the record under the iterator.
PassRecordSize(p) ==
    IF cfg.isOplog THEN decodeSize(p.sub.snapTr[p.iter]) ELSE p.sub.snapDb[p.iter]

\* The tests of the pass without the one for a capped-hidden record.
PassBreaksNotAtHidden(t, p) ==
    \/ p.iter >= p.justInserted
    \/ shuttingDown
    \/ ~registerWriteOK(t, TRUE, p.sub, p.iter)

\* The tests of the pass without the one for a rejected registerWrite.
PassBreaksNotAtConflict(t, p) ==
    \/ isCappedHidden(p.iter)
    \/ p.iter >= p.justInserted
    \/ shuttingDown

\* Whether the pass stops at the record under the iterator.
PassBreaks(t, p) ==
    \/ isCappedHidden(p.iter)
    \/ p.iter >= p.justInserted
    \/ shuttingDown
    \/ ~registerWriteOK(t, TRUE, p.sub, p.iter)

\* One deletion of the pass that stages the deletes without calling
\* aboutToDeleteCapped.
PassDeleteUncalled(p) ==
    LET newestOld == p.iter
        a == WbDelete(p.sub, newestOld)
        b == IF cfg.isOplog THEN TrackerDelete(a, newestOld) ELSE a
        c == [b EXCEPT !.written = @ \cup {newestOld}]
    IN [p EXCEPT !.docsRemoved = @ + 1,
                 !.sizeSaved = @ + PassRecordSize(p),
                 !.sub = c,
                 !.iter = IterNext(PassView(p), newestOld)]

\* One deletion of the pass that counts every record as one byte long.
PassDeleteUnitSize(p) ==
    LET newestOld == p.iter
        a == WbDelete(p.sub, newestOld)
        b == IF cfg.isOplog THEN TrackerDelete(a, newestOld) ELSE a
        c == [b EXCEPT !.written = @ \cup {newestOld}]
    IN [p EXCEPT !.docsRemoved = @ + 1,
                 !.sizeSaved = @ + 1,
                 !.sub = c,
                 !.called = Append(@, newestOld),
                 !.iter = IterNext(PassView(p), newestOld)]

\* One deletion of the pass: count, call aboutToDeleteCapped, stage the deletes,
\* advance.
PassDelete(p) ==
    LET newestOld == p.iter
        a == WbDelete(p.sub, newestOld)
        b == IF cfg.isOplog THEN TrackerDelete(a, newestOld) ELSE a
        c == [b EXCEPT !.written = @ \cup {newestOld}]
    IN [p EXCEPT !.docsRemoved = @ + 1,
                 !.sizeSaved = @ + PassRecordSize(p),
                 !.sub = c,
                 !.called = Append(@, newestOld),
                 !.iter = IterNext(PassView(p), newestOld)]

\* One turn of the loop.
PassStep(t) ==
    /\ pc[t] = "pass"
    /\ IF PassContinues(pass[t]) /\ ~PassBreaks(t, pass[t])
       THEN /\ pass' = [pass EXCEPT ![t] = PassDelete(@)]
            /\ UNCHANGED pc
       ELSE /\ pc' = [pc EXCEPT ![t] =
                        IF pass[t].docsRemoved > 0 THEN "passCommit" ELSE "passFinish"]
            /\ UNCHANGED pass
    /\ UNCHANGED <<cfg, catalog, engineVars, storeVars, nextOpTime, visVars, shuttingDown,
                   journal, ru, cur, waiter, hist>>

\* A transaction's commit marks its registered keys as committed after every
\* other open snapshot.
MarkStale(r, keys) == IF r.hasSnap THEN [r EXCEPT !.stale = @ \cup keys] ELSE r

\* docsRemoved > 0: the counters are adjusted and the sub-transaction commits.
PassCommit(t) ==
    /\ pc[t] = "passCommit"
    /\ LET p == pass[t]
           s == [p.sub EXCEPT !.dNum = @ - p.docsRemoved, !.dSize = @ - p.sizeSaved]
       IN /\ db' = ApplyBatch(db, s.put, s.del)
          /\ tracker' = ApplyBatch(tracker, s.tput, s.tdel)
          /\ numRecords' = numRecords + s.dNum
          /\ dataSize' = dataSize + s.dSize
          /\ ru' = [u \in Writers |->
                      IF u = t
                      THEN MarkStale([ru[u] EXCEPT !.evicted =
                                        IF cfg.history = "all" THEN @ \cup s.del ELSE @],
                                     s.written)
                      ELSE MarkStale(ru[u], s.written)]
          /\ pass' = [u \in Writers |->
                        IF u = t THEN [p EXCEPT !.sub.written = {}]
                        ELSE [pass[u] EXCEPT !.sub = MarkStale(@, s.written)]]
          /\ hist' = Remember([hist EXCEPT !.removed = @ \cup s.del])
    /\ pc' = [pc EXCEPT ![t] = "passFinish"]
    /\ UNCHANGED <<cfg, catalog, storeVars, nextOpTime, visVars, shuttingDown, journal,
                   cur, waiter>>

\* The hint the pass leaves: the record under the iterator, unless it is hidden.
NewOldestKeyHint(p) ==
    IF p.iter # NullId /\ ~isCappedHidden(p.iter) THEN p.iter
    ELSE cappedOldestKeyHint

\* The hint is advanced, the caller's recovery unit reinstated, the mutex released.
PassFinish(t) ==
    /\ pc[t] = "passFinish"
    /\ cappedOldestKeyHint' = NewOldestKeyHint(pass[t])
    /\ cappedDeleterMutex' = NoThread
    /\ Return0(t)
    /\ UNCHANGED <<cfg, catalog, engineVars, nextIdNum, nextOpTime, visVars, shuttingDown,
                   journal, ru, cur, waiter, hist>>

\* An exception that ends the pass without the caller's recovery unit being
\* reinstated: the operation context is left with none.
PassThrowsLosingUnit(t, exc) ==
    /\ pc[t] \in {"pass", "passCommit"}
    /\ pc[t] = "pass" => PassContinues(pass[t]) /\ ~PassBreaks(t, pass[t])
    /\ pass' = [pass EXCEPT ![t] = [EmptyPass EXCEPT !.raised = exc]]
    /\ cappedDeleterMutex' = NoThread
    /\ pc' = [pc EXCEPT ![t] = IF exc = "WriteConflict" THEN "txn" ELSE "abort"]
    /\ ru' = [ru EXCEPT ![t] = EmptyRU]
    /\ UNCHANGED <<cfg, catalog, engineVars, nextIdNum, cappedOldestKeyHint, nextOpTime,
                   visVars, shuttingDown, journal, cur, waiter, hist>>

\* An exception inside the try block of the pass, out of aboutToDeleteCapped or
\* out of the commit of the sub-transaction: the sub-transaction is discarded
\* and the caller's recovery unit reinstated; a WriteConflictException ends
\* there (return 0), any other exception goes on to the caller. The mutex is
\* released as cappedDeleteAsNeeded is left.
PassThrows(t, exc) ==
    /\ pc[t] \in {"pass", "passCommit"}
    /\ pc[t] = "pass" => PassContinues(pass[t]) /\ ~PassBreaks(t, pass[t])
    /\ pass' = [pass EXCEPT ![t] =
                   IF cfg.history = "calls" /\ pc[t] = "pass"
                   THEN [EmptyPass EXCEPT !.raised = exc,
                                          !.called = Append(pass[t].called, pass[t].iter),
                                          !.failedOn = pass[t].iter,
                                          !.stagedAtFailure = pass[t].sub.del]
                   ELSE [EmptyPass EXCEPT !.raised = exc]]
    /\ cappedDeleterMutex' = NoThread
    /\ pc' = [pc EXCEPT ![t] = IF exc = "WriteConflict" THEN "txn" ELSE "abort"]
    /\ UNCHANGED <<cfg, catalog, engineVars, nextIdNum, cappedOldestKeyHint, nextOpTime,
                   visVars, shuttingDown, journal, ru, cur, waiter, hist>>

\* ------------------------------------------------------------ deleteRecord
\* deleteRecord without the dataSize delta.
StageDeleteKeepsSize(r, dl) ==
    LET a == WbDelete(r, dl)
        b == IF cfg.isOplog THEN TrackerDelete(a, dl) ELSE a
    IN [b EXCEPT !.dNum = @ - 1, !.written = @ \cup {dl}, !.ins = @ \ {dl}]

\* The staged part of deleteRecord: the old length is read through the recovery
\* unit, the key and its tracker entry are deleted, the counters adjusted.
StageDelete(r, dl) ==
    LET oldLength == RuView(r)[dl]
        a == WbDelete(r, dl)
        b == IF cfg.isOplog THEN TrackerDelete(a, dl) ELSE a
    IN [b EXCEPT !.dNum = @ - 1, !.dSize = @ - oldLength,
                 !.written = @ \cup {dl}, !.ins = @ \ {dl}]

\* A WriteConflictException thrown once the counter delta has been staged.
ThrowAfterStaging(t, key) ==
    /\ pc' = [pc EXCEPT ![t] = "abort"]
    /\ ru' = [ru EXCEPT ![t] = [Txn(t) EXCEPT !.dNum = @ - 1, !.threwOn = key]]
    /\ UNCHANGED pass

\* A WriteConflictException leaves the operation; the unit of work is abandoned.
ThrowWriteConflict(t, key) ==
    /\ pc' = [pc EXCEPT ![t] = "abort"]
    /\ ru' = [ru EXCEPT ![t] =
                 IF cfg.history \in {"ops", "all"}
                 THEN [Txn(t) EXCEPT !.threwOn = key] ELSE Txn(t)]
    /\ UNCHANGED pass

deleteRecord(t, dl) ==
    /\ pc[t] \in {"idle", "txn"}
    /\ Txn(t).nops < MaxTxnOps
    /\ dl \in DOMAIN RuView(WithSnapshot(Txn(t)))
    /\ IF ~registerWriteOK(t, FALSE, Txn(t), dl)
       THEN ThrowWriteConflict(t, dl)
       ELSE /\ ru' = [ru EXCEPT ![t] =
                        [StageDelete(WithSnapshot(Txn(t)), dl) EXCEPT !.nops = @ + 1]]
            /\ pc' = [pc EXCEPT ![t] = "txn"]
            /\ UNCHANGED pass
    /\ UNCHANGED <<cfg, catalog, engineVars, storeVars, nextOpTime, visVars, shuttingDown,
                   journal, cur, waiter, hist>>

\* ------------------------------------------------------------ updateRecord
\* updateRecord without the tracker entry.
StageUpdateNoTracker(r, loc, len) ==
    LET old_length == RuView(r)[loc]
    IN [WbPut(r, loc, len) EXCEPT !.dSize = @ + (len - old_length),
                                  !.written = @ \cup {loc}]

\* The staged part of updateRecord: the Put, the tracker entry, the size delta.
StageUpdate(r, loc, len) ==
    LET old_length == RuView(r)[loc]
        a == WbPut(r, loc, len)
        b == IF cfg.isOplog THEN TrackerPut(a, loc, EncodeSize(len)) ELSE a
    IN [b EXCEPT !.dSize = @ + (len - old_length), !.written = @ \cup {loc},
                 !.truncated = FALSE]

updateRecord(t, loc, len) ==
    /\ pc[t] \in {"idle", "txn"}
    /\ Txn(t).nops < MaxTxnOps
    /\ loc \in DOMAIN RuView(WithSnapshot(Txn(t)))
    /\ IF ~registerWriteOK(t, FALSE, Txn(t), loc)
       THEN ThrowWriteConflict(t, loc)
       ELSE /\ ru' = [ru EXCEPT ![t] =
                        [StageUpdate(WithSnapshot(Txn(t)), loc, len)
                            EXCEPT !.nops = @ + 1]]
            /\ EnterCappedDelete(t, loc)
    /\ UNCHANGED <<cfg, catalog, engineVars, storeVars, nextOpTime, visVars, shuttingDown,
                   journal, cur, waiter, hist>>

\* ---------------------------------------------------------------- truncate
\* The loop of truncate through a cursor's eyes: it ends at a capped-hidden key.
RECURSIVE TruncateVisibleFrom(_, _, _)
TruncateVisibleFrom(t, r, pos) ==
    IF pos = NullId \/ (cfg.isCapped /\ isCappedHidden(pos))
    THEN [ru |-> r, conflict |-> FALSE]
    ELSE IF ~registerWriteOK(t, FALSE, r, pos) THEN [ru |-> r, conflict |-> TRUE]
    ELSE LET d == StageDelete(r, pos)
         IN TruncateVisibleFrom(t, d, IterNext(RuView(d), pos))

\* The loop of truncate from the key under the iterator: deleteRecord on every
\* key, until one is refused (conflict) or the iterator runs out.
RECURSIVE TruncateFrom(_, _, _)
TruncateFrom(t, r, pos) ==
    IF pos = NullId THEN [ru |-> r, conflict |-> FALSE]
    ELSE IF ~registerWriteOK(t, FALSE, r, pos) THEN [ru |-> r, conflict |-> TRUE]
    ELSE LET d == StageDelete(r, pos)
         IN TruncateFrom(t, d, IterNext(RuView(d), pos))

truncate(t) ==
    /\ pc[t] \in {"idle", "txn"}
    /\ Txn(t).nops < MaxTxnOps
    /\ LET r == WithSnapshot(Txn(t))
           res == TruncateFrom(t, r, SeekToFirst(RuView(r)))
       IN /\ ru' = [ru EXCEPT ![t] =
                       [res.ru EXCEPT !.nops = @ + 1,
                                      !.truncated = ~res.conflict /\ cfg.history \in {"ops", "all"}]]
          /\ pc' = [pc EXCEPT ![t] = IF res.conflict THEN "abort" ELSE "txn"]
    /\ UNCHANGED <<cfg, catalog, engineVars, storeVars, nextOpTime, visVars, shuttingDown,
                   journal, pass, cur, waiter, hist>>

\* ------------------------------------------------------ commit and rollback
\* The recovery unit's commit: the write batch and the counter deltas are applied
\* together; the registered changes run afterwards (CommitHook).
CommitUnitOfWork(t) ==
    /\ pc[t] = "txn"
    /\ ru[t].reg = NullId
    /\ LET r == ru[t]
       IN /\ db' = ApplyBatch(db, r.put, r.del)
          /\ tracker' = ApplyBatch(tracker, r.tput, r.tdel)
          /\ numRecords' = numRecords + r.dNum
          /\ dataSize' = dataSize + r.dSize
          /\ ru' = [u \in Writers |->
                      IF u = t THEN Ended(r, "committed")
                      ELSE MarkStale(ru[u], r.written)]
          /\ pass' = [u \in Writers |->
                        [pass[u] EXCEPT !.sub = MarkStale(@, r.written)]]
          /\ hist' = Remember([hist EXCEPT !.committed = @ \cup r.ins,
                                           !.removed = @ \cup (r.del \cap DOMAIN db)])
          /\ pc' = [pc EXCEPT ![t] =
                      IF r.changes = <<>> THEN "idle" ELSE "commitHooks"]
    /\ UNCHANGED <<cfg, catalog, storeVars, nextOpTime, visVars, shuttingDown, journal,
                   cur, waiter>>

\* CappedInsertChange::commit
CommitHook(t) ==
    /\ pc[t] = "commitHooks"
    /\ dealtWithCappedRecord(Head(ru[t].changes), TRUE)
    /\ ru' = [ru EXCEPT ![t].changes = Tail(@)]
    /\ pc' = [pc EXCEPT ![t] =
                IF Len(ru[t].changes) = 1 THEN "idle" ELSE "commitHooks"]
    /\ UNCHANGED <<cfg, catalog, engineVars, storeVars, nextOpTime, oplog_highestSeen,
                   shuttingDown, pass, cur, hist>>

\* The recovery unit's abort: the write batch and the deltas are dropped; the
\* registered changes roll back afterwards, last first (RollbackHook).
AbortUnitOfWork(t) ==
    /\ pc[t] \in {"txn", "abort"}
    /\ ru' = [ru EXCEPT ![t] = Ended(@, "aborted")]
    /\ pc' = [pc EXCEPT ![t] =
                IF ru[t].changes = <<>> THEN "idle" ELSE "rollbackHooks"]
    /\ UNCHANGED <<cfg, catalog, engineVars, storeVars, nextOpTime, visVars, shuttingDown,
                   journal, pass, cur, waiter, hist>>

\* CappedInsertChange::rollback
RollbackHook(t) ==
    /\ pc[t] = "rollbackHooks"
    /\ dealtWithCappedRecord(Last(ru[t].changes), FALSE)
    /\ ru' = [ru EXCEPT ![t].changes = Front(@)]
    /\ pc' = [pc EXCEPT ![t] =
                IF Len(ru[t].changes) = 1 THEN "idle" ELSE "rollbackHooks"]
    /\ UNCHANGED <<cfg, catalog, engineVars, storeVars, nextOpTime, oplog_highestSeen,
                   shuttingDown, pass, cur, hist>>

\* A loop that takes the work it finds before it looks at the flag.
JournalWaitWorkFirst ==
    /\ journal.pc = "check"
    /\ IF ~(shuttingDown \/ opsWaitingForJournal # <<>>)
       THEN /\ journal' = [journal EXCEPT !.pc = "blocked"]
            /\ UNCHANGED opsWaitingForJournal
       ELSE IF opsWaitingForJournal = <<>>
       THEN /\ journal' = [journal EXCEPT !.pc = "exited"]
            /\ UNCHANGED opsWaitingForJournal
       ELSE /\ journal' = [journal EXCEPT !.pc = "durable",
                                               !.ops = opsWaitingForJournal,
                                               !.covers = hist.committed]
            /\ opsWaitingForJournal' = <<>>
    /\ UNCHANGED <<cfg, catalog, engineVars, storeVars, nextOpTime, uncommittedRecords,
                   oplog_highestSeen, shuttingDown, pc, ru, pass, cur, waiter, hist>>

\* ----------------------------------------------------- oplogJournalThreadLoop
\* The wait at the top of the loop, then the swap; waitUntilDurable follows.
JournalWait ==
    /\ journal.pc = "check"
    /\ IF ~(shuttingDown \/ opsWaitingForJournal # <<>>)
       THEN /\ journal' = [journal EXCEPT !.pc = "blocked"]
            /\ UNCHANGED opsWaitingForJournal
       ELSE IF shuttingDown
       THEN /\ journal' = [journal EXCEPT !.pc = "exited"]
            /\ UNCHANGED opsWaitingForJournal
       ELSE /\ journal' = [journal EXCEPT !.pc = "durable",
                                               !.ops = opsWaitingForJournal,
                                               !.covers = hist.committed]
            /\ opsWaitingForJournal' = <<>>
    /\ UNCHANGED <<cfg, catalog, engineVars, storeVars, nextOpTime, uncommittedRecords,
                   oplog_highestSeen, shuttingDown, pc, ru, pass, cur, waiter, hist>>

\* The erase loop of a round that empties the set.
JournalErasedAll(ops) == <<>>

\* The erase loop of one round.
JournalErased(ops) ==
    SelectSeq(uncommittedRecords, LAMBDA x : x \notin SeqElems(ops))

\* waitUntilDurable has returned: the swapped ids are erased, the waiters woken.
JournalErase ==
    /\ journal.pc = "durable"
    /\ uncommittedRecords' = JournalErased(journal.ops)
    /\ waiter' = NotifyOpsBecameVisible
    /\ journal' = [journal EXCEPT
                      !.pc = "check", !.ops = <<>>, !.covers = {},
                      !.last = IF cfg.history = "none" THEN <<>> ELSE journal.ops]
    /\ UNCHANGED <<cfg, catalog, engineVars, storeVars, nextOpTime, oplog_highestSeen,
                   opsWaitingForJournal, shuttingDown, pc, ru, pass, cur, hist>>

\* ------------------------------------------------ joinOplogJournalThreadLoop
\* The destructor has set the store's flag under the deleter mutex; the join
\* sets the visibility manager's under its mutex. One variable stands for both.
JoinSetsFlag ==
    /\ journal.join = "none"
    /\ cappedDeleterMutex = NoThread
    /\ shuttingDown' = TRUE
    /\ journal' = [journal EXCEPT !.join = "flagged",
                                   \* history: where the journal thread was
                                   !.saw = journal.pc]
    /\ UNCHANGED <<cfg, catalog, engineVars, storeVars, nextOpTime, visVars, pc, ru, pass,
                   cur, waiter, hist>>

\* joinable(): notify_one, then join(); a thread never started is not joined.
JoinNotifies ==
    /\ journal.join = "flagged"
    /\ journal' = IF journal.pc = "none" THEN [journal EXCEPT !.join = "joined"]
                  ELSE [NotifyJournal EXCEPT !.join = "joining"]
    /\ UNCHANGED <<cfg, catalog, engineVars, storeVars, nextOpTime, visVars, shuttingDown,
                   pc, ru, pass, cur, waiter, hist>>

\* join() returns once the thread has left its loop.
JoinReturns ==
    /\ journal.join = "joining"
    /\ journal.pc = "exited"
    /\ journal' = [journal EXCEPT !.join = "joined"]
    /\ UNCHANGED <<cfg, catalog, engineVars, storeVars, nextOpTime, visVars, shuttingDown,
                   pc, ru, pass, cur, waiter, hist>>

JoinStep == JoinSetsFlag \/ JoinNotifies \/ JoinReturns

\* ------------------------------------ waitForAllEarlierOplogWritesToBeVisible
\* The predicate with the sampled id itself taken for visible.
EarlierWritesVisibleFrom(waitingFor) ==
    uncommittedRecords = <<>> \/ Head(uncommittedRecords) >= waitingFor

\* The predicate the waiter waits for.
EarlierWritesVisible(waitingFor) ==
    uncommittedRecords = <<>> \/ Head(uncommittedRecords) > waitingFor

\* The call: highestSeen is sampled and the predicate tested under the lock.
waitForAllEarlierOplogWritesToBeVisible(w) ==
    /\ cfg.isOplog
    /\ waiter[w].pc = "idle"
    /\ waiter' = [waiter EXCEPT ![w] =
                    [pc |-> IF EarlierWritesVisible(oplog_highestSeen)
                            THEN "done" ELSE "blocked",
                     waitingFor |-> oplog_highestSeen,
                     \* history: whether the call has had to wait
                     waited |-> ~EarlierWritesVisible(oplog_highestSeen)]]
    /\ UNCHANGED <<cfg, catalog, engineVars, storeVars, nextOpTime, visVars, shuttingDown,
                   journal, pc, ru, pass, cur, hist>>

\* A woken waiter tests the predicate again.
WaiterWake(w) ==
    /\ waiter[w].pc = "check"
    /\ waiter' = [waiter EXCEPT ![w].pc =
                    IF EarlierWritesVisible(waiter[w].waitingFor)
                    THEN "done" ELSE "blocked"]
    /\ UNCHANGED <<cfg, catalog, engineVars, storeVars, nextOpTime, visVars, shuttingDown,
                   journal, pc, ru, pass, cur, hist>>

\* The operation is interrupted while it waits.
WaiterInterrupt(w) ==
    /\ waiter[w].pc \in {"blocked", "check"}
    /\ waiter' = [waiter EXCEPT ![w].pc = "interrupted"]
    /\ UNCHANGED <<cfg, catalog, engineVars, storeVars, nextOpTime, visVars, shuttingDown,
                   journal, pc, ru, pass, cur, hist>>

\* The caller goes on; it may call again.
WaiterReturn(w) ==
    /\ waiter[w].pc \in {"done", "interrupted"}
    /\ waiter' = [waiter EXCEPT ![w] = [pc |-> "idle", waitingFor |-> NullId, waited |-> FALSE]]
    /\ UNCHANGED <<cfg, catalog, engineVars, storeVars, nextOpTime, visVars, shuttingDown,
                   journal, pc, ru, pass, cur, hist>>

\* ------------------------------------------------------ RocksRecordStore::Cursor
\* positionIterator that never sets _skipNextAdvance.
positionIteratorNoSkip(c, view) ==
    LET sought == IF c.iter = NullId \/ c.iter # c.lastLoc
                  THEN Seek(view, c.lastLoc) ELSE c.iter
        landed == IF c.forward THEN sought
                  ELSE IF sought = NullId THEN SeekToLast(view)
                  ELSE IF c.lastLoc # sought THEN IterPrev(view, sought)
                  ELSE sought
    IN [c EXCEPT !.iter = landed,
                 !.skipNextAdvance = FALSE,
                 !.eof = landed = NullId \/ (cfg.isCapped /\ c.lastLoc # landed)]

\* positionIterator: seek to _lastLoc, land on or after (forward) or on or
\* before (reverse) it.
positionIterator(c, view) ==
    LET sought == IF c.iter = NullId \/ c.iter # c.lastLoc
                  THEN Seek(view, c.lastLoc) ELSE c.iter
        landed == IF c.forward THEN sought
                  ELSE IF sought = NullId THEN SeekToLast(view)
                  ELSE IF c.lastLoc # sought THEN IterPrev(view, sought)
                  ELSE sought
        skip == IF c.forward THEN sought = NullId \/ c.lastLoc # sought
                ELSE sought = NullId \/ c.lastLoc # sought
    IN [c EXCEPT !.iter = landed,
                 !.skipNextAdvance = skip,
                 !.eof = landed = NullId \/ (cfg.isCapped /\ c.lastLoc # landed)]

\* iterator(): created on first use, positioned unless the first seek is pending.
iterator(c, view) ==
    IF c.hasIter THEN c
    ELSE LET fresh == [c EXCEPT !.hasIter = TRUE, !.iter = NullId]
         IN IF ~fresh.needFirstSeek THEN positionIterator(fresh, view) ELSE fresh

\* curr() without the oplog ceiling: every capped cursor filtered by
\* isCappedHidden alone.
CurrFiltersNoCeiling(c, loc) ==
    /\ (cfg.isCapped \/ cfg.isOplog)
    /\ c.forward
    /\ isCappedHidden(loc)

\* Whether curr() withholds the record under the iterator.
CurrFilters(c, loc) ==
    /\ (cfg.isCapped \/ cfg.isOplog)
    /\ c.forward
    /\ IF c.readUntil = NullId
       THEN isCappedHidden(loc)
       ELSE loc > c.readUntil \/ (loc = c.readUntil /\ isCappedHidden(loc))

\* Whether curr() calls isCappedHidden, which locks the visibility mutex: the
\* iterator is valid, the cursor is a forward one of a capped store, and an oplog
\* cursor is at its ceiling.
CurrLocksVisibility(c) ==
    /\ c.iter # NullId
    /\ (cfg.isCapped \/ cfg.isOplog)
    /\ c.forward
    /\ c.readUntil # NullId => c.iter = c.readUntil

\* curr(): the cursor after the call; it returned lastLoc unless eof is set.
curr(c) ==
    IF c.iter = NullId THEN [c EXCEPT !.eof = TRUE]
    ELSE [c EXCEPT !.eof = CurrFilters(c, c.iter), !.lastLoc = c.iter]

\* The advance of next(), before curr().
Advance(c, view) ==
    LET i == iterator(c, view)
    IN IF i.skipNextAdvance THEN [i EXCEPT !.skipNextAdvance = FALSE]
       ELSE IF i.needFirstSeek
       THEN [i EXCEPT !.needFirstSeek = FALSE,
                      !.iter = IF i.forward THEN SeekToFirst(view) ELSE SeekToLast(view)]
       ELSE [i EXCEPT !.iter = IF i.forward THEN IterNext(view, i.iter)
                                ELSE IterPrev(view, i.iter)]

\* next(): the cursor after the call; it returned lastLoc unless eof is set.
next(c, view) == IF c.eof THEN c ELSE curr(Advance(c, view))

\* seekExact(id): a point Get; the cursor after the call.
seekExact(c, view, id) ==
    LET reset == [c EXCEPT !.needFirstSeek = FALSE, !.skipNextAdvance = FALSE,
                           !.hasIter = FALSE, !.iter = NullId]
    IN IF id \notin DOMAIN view THEN [reset EXCEPT !.eof = TRUE]
       ELSE [reset EXCEPT !.eof = FALSE, !.lastLoc = id]

\* The constructor: the ceiling is copied from the recovery unit, the snapshot is
\* taken, and an oplog cursor is positioned at startIterator at once.
CursorCtor(c) ==
    LET a == [c EXCEPT !.readUntil = c.readTill,
                       !.hasSnap = TRUE,
                       !.snapDb = IF c.hasSnap THEN c.snapDb ELSE db,
                       !.committedAtSnap = IF c.hasSnap THEN c.committedAtSnap
                                           ELSE hist.committed]
    IN IF a.startIterator # NullId /\ a.readUntil # NullId
       THEN [iterator([a EXCEPT !.needFirstSeek = FALSE, !.lastLoc = a.startIterator],
                      a.snapDb)
                EXCEPT !.skipNextAdvance = TRUE, !.eof = FALSE]
       ELSE a

\* What a call that returned record id leaves in the history.
Returned(c, op, id) ==
    [c EXCEPT !.lastRet = [op |-> op, id |-> id,
                           hidden |-> \E u \in SeqElems(uncommittedRecords) : u <= id],
              !.returned = IF op = "next" THEN Append(@, id) ELSE <<>>]

readerFrame == <<cfg, catalog, engineVars, storeVars, nextOpTime, visVars, shuttingDown,
                 journal, pc, ru, pass, waiter, hist>>

\* RocksRecordStore::oplogStartHack without the Prev() past the target.
StartHackNoPrev(view, startingPosition) ==
    IF ~cfg.isOplog THEN <<>>
    ELSE LET found == Seek(view, startingPosition)
         IN IF found = NullId THEN <<SeekToLast(view)>> ELSE <<found>>

\* RocksRecordStore::oplogStartHack over the tracker keys the recovery unit
\* reads: <<>> is boost::none, <<NullId>> is RecordId().
StartHack(view, startingPosition) ==
    IF ~cfg.isOplog THEN <<>>
    ELSE LET found == Seek(view, startingPosition)
         IN IF found = NullId THEN <<SeekToLast(view)>>
            ELSE IF startingPosition # found THEN <<IterPrev(view, found)>>
            ELSE <<found>>

\* A reader without a cursor calls oplogStartHack: the read ceiling is set on its
\* recovery unit, the tracker is read at the snapshot taken now.
oplogStartHack(r, startingPosition) ==
    /\ ~cur[r].open
    /\ cur' = [cur EXCEPT ![r] =
                  [EmptyCursor EXCEPT
                     !.readTill = IF cfg.isOplog THEN vmOplogStartHack ELSE NullId,
                     !.hack = [called |-> TRUE, at |-> startingPosition,
                               got |-> StartHack(tracker, startingPosition),
                               keys |-> DOMAIN tracker]]]
    /\ UNCHANGED readerFrame

\* getCursor up to the construction of the cursor: a forward oplog cursor samples
\* the read ceiling, a reverse one starts at it.
CursorArguments(forward) ==
    [EmptyCursor EXCEPT
       !.open = TRUE, !.stage = "sampled", !.forward = forward,
       !.readTill = IF cfg.isOplog /\ forward THEN vmOplogStartHack ELSE NullId,
       !.startIterator =
           IF ~cfg.isOplog THEN NullId
           ELSE IF forward THEN cappedOldestKeyHint
           ELSE vmOplogStartHack]

\* The lockers an operation context comes with: the no-op locker, one that
\* holds the collection in an intent mode, one that holds it in MODE_X.
Lockers == {"noop", "IX", "X"}

\* getCursor that never refuses.
NeverConflicts(c, forward, locker) == FALSE

\* The test of getCursor that throws WriteConflictException.
ThrowsConflict(c, forward, locker) ==
    /\ cfg.isOplog
    /\ forward
    /\ c.hasSnap
    /\ locker # "noop"
    /\ locker # "X"

\* getCursor inside the reader's unit of work, whose recovery unit may have a
\* snapshot and a read ceiling from before.
getCursorAs(r, forward, locker) ==
    /\ ~cur[r].open
    /\ cur[r].lock \in {"none", locker}
    /\ LET c == cur[r]
       IN cur' = [cur EXCEPT ![r] =
                    IF ThrowsConflict(c, forward, locker)
                    THEN [c EXCEPT !.forward = forward, !.lock = locker,
                                   !.hadSnap = c.hasSnap, !.threw = TRUE]
                    ELSE [CursorArguments(forward) EXCEPT
                            !.hasSnap = c.hasSnap, !.snapDb = c.snapDb,
                            !.committedAtSnap = c.committedAtSnap,
                            !.readTill = IF cfg.isOplog /\ forward
                                         THEN vmOplogStartHack ELSE c.readTill,
                            !.lock = locker, !.hadSnap = c.hasSnap]]
    /\ UNCHANGED readerFrame

\* getCursor of a reader whose recovery unit is fresh.
getCursor(r, forward) ==
    /\ ~cur[r].open
    /\ cur' = [cur EXCEPT ![r] = CursorArguments(forward)]
    /\ UNCHANGED readerFrame

\* What a forward cursor opened now returns, next() after next(), were nothing
\* else to run meanwhile.
RECURSIVE ScanFrom(_, _)
ScanFrom(c, n) ==
    IF n = 0 \/ c.eof THEN <<>>
    ELSE LET d == next(c, c.snapDb)
         IN IF d.eof THEN <<>> ELSE <<d.lastLoc>> \o ScanFrom(d, n - 1)

ForwardScan == ScanFrom(CursorCtor(CursorArguments(TRUE)), Cardinality(DOMAIN db))

CursorConstruct(r) ==
    /\ cur[r].stage = "sampled"
    /\ cur' = [cur EXCEPT ![r] = [CursorCtor(@) EXCEPT !.stage = "ready"]]
    /\ UNCHANGED readerFrame

\* What the first next() after a restore() leaves in the history: old is the
\* cursor before the call, c the cursor after it.
FirstNextAfterRestore(old, c) ==
    IF ~old.rest.called \/ old.rest.nexted THEN c
    ELSE LET a == Advance(old, old.snapDb)
         IN [c EXCEPT !.rest.nexted = TRUE,
                      !.rest.got = IF ~old.eof /\ ~c.eof THEN <<c.lastLoc>> ELSE <<>>,
                      !.rest.withheld = /\ ~old.eof
                                        /\ a.iter # NullId
                                        /\ CurrFilters(a, a.iter)]

CursorNext(r) ==
    /\ cur[r].stage = "ready"
    /\ LET c == next(cur[r], cur[r].snapDb)
       IN cur' = [cur EXCEPT ![r] =
                    FirstNextAfterRestore(cur[r],
                        IF ~cur[r].eof /\ ~c.eof THEN Returned(c, "next", c.lastLoc)
                        ELSE c)]
    /\ UNCHANGED readerFrame

CursorSeekExact(r, id) ==
    /\ cur[r].stage = "ready"
    /\ LET c == [seekExact(cur[r], cur[r].snapDb, id)
                   EXCEPT !.rest = EmptyCursor.rest]
       IN cur' = [cur EXCEPT ![r] =
                    IF ~c.eof THEN Returned(c, "seekExact", id) ELSE c]
    /\ UNCHANGED readerFrame

\* save() does nothing; the caller then yields, which abandons the snapshot of
\* its recovery unit.
CursorSave(r) ==
    /\ cur[r].stage = "ready"
    /\ cur' = [cur EXCEPT ![r] = [@ EXCEPT !.stage = "saved", !.hasSnap = FALSE,
                                            !.rest = EmptyCursor.rest]]
    /\ UNCHANGED readerFrame

\* restore() that reports success whatever it found.
restoreAlwaysTrue(c, view) ==
    LET fresh == IF ~c.hasIter \/ c.snapDb # view
                 THEN [c EXCEPT !.hasIter = TRUE, !.iter = NullId] ELSE c
        a == [fresh EXCEPT !.skipNextAdvance = FALSE, !.snapDb = view, !.hasSnap = TRUE]
        p == IF a.eof \/ a.needFirstSeek THEN a ELSE positionIterator(a, view)
    IN [p EXCEPT !.rest = [called |-> TRUE,
                           positioned |-> ~a.eof /\ ~a.needFirstSeek,
                           loc |-> a.lastLoc,
                           ok |-> TRUE,
                           nexted |-> FALSE, got |-> <<>>, withheld |-> FALSE]]

\* restore(): view is what the snapshot of the recovery unit reads now. The
\* iterator is replaced when there is none or the snapshot has changed, then
\* the cursor is re-positioned at _lastLoc unless it is at eof or has not done
\* its first seek.
restore(c, view) ==
    LET fresh == IF ~c.hasIter \/ c.snapDb # view
                 THEN [c EXCEPT !.hasIter = TRUE, !.iter = NullId] ELSE c
        a == [fresh EXCEPT !.skipNextAdvance = FALSE, !.snapDb = view, !.hasSnap = TRUE]
        p == IF a.eof \/ a.needFirstSeek THEN a ELSE positionIterator(a, view)
    IN [p EXCEPT !.rest = [called |-> TRUE,
                           positioned |-> ~a.eof /\ ~a.needFirstSeek,
                           loc |-> a.lastLoc,
                           ok |-> \/ a.eof
                                  \/ a.needFirstSeek
                                  \/ ~((cfg.isCapped \/ cfg.isOplog) /\ p.eof),
                           nexted |-> FALSE, got |-> <<>>, withheld |-> FALSE]]

CursorRestore(r) ==
    /\ cur[r].stage = "saved"
    /\ cur' = [cur EXCEPT ![r] =
                  [restore(@, db) EXCEPT !.stage = "ready",
                                         !.committedAtSnap = hist.committed]]
    /\ UNCHANGED readerFrame

\* The cursor is destroyed and the reader's snapshot abandoned.
CursorClose(r) ==
    /\ cur[r].stage = "ready"
    /\ cur' = [cur EXCEPT ![r] = EmptyCursor]
    /\ UNCHANGED readerFrame

\* The cursor is destroyed; the reader's unit of work goes on with the snapshot
\* and the read ceiling of its recovery unit.
CursorDestroy(r) ==
    /\ cur[r].stage = "ready"
    /\ cur' = [cur EXCEPT ![r] =
                  [EmptyCursor EXCEPT !.hasSnap = cur[r].hasSnap,
                                      !.snapDb = cur[r].snapDb,
                                      !.committedAtSnap = cur[r].committedAtSnap,
                                      !.readTill = cur[r].readTill,
                                      !.lock = cur[r].lock]]
    /\ UNCHANGED readerFrame

\* The reader's unit of work ends: snapshot and locks are given up.
ReaderEnd(r) ==
    /\ ~cur[r].open
    /\ cur[r].lock # "none"
    /\ cur' = [cur EXCEPT ![r] = EmptyCursor]
    /\ UNCHANGED readerFrame

\* ------------------------------------------------------- cappedTruncateAfter
\* The cursor getCursor hands to the caller's own recovery unit r.
OwnCursor(r, forward) ==
    CursorCtor([EmptyCursor EXCEPT
                  !.open = TRUE, !.stage = "ready", !.forward = forward,
                  !.hasSnap = TRUE, !.snapDb = RuView(r),
                  !.readTill = IF cfg.isOplog /\ forward THEN vmOplogStartHack
                               ELSE NullId,
                  !.startIterator =
                      IF ~cfg.isOplog THEN NullId
                      ELSE IF forward THEN cappedOldestKeyHint
                      ELSE vmOplogStartHack])

\* lastKeptId left at end whether or not end itself goes.
LastKeptIdIsEnd(r, end, inclusive) == end

\* inclusive: the record before end through a reverse cursor, or RecordId::min().
LastKeptId(r, end, inclusive) ==
    IF ~inclusive THEN end
    ELSE LET prev == next(seekExact(OwnCursor(r, FALSE), RuView(r), end), RuView(r))
         IN IF prev.eof THEN RecordIdMin ELSE prev.lastLoc

\* The forward loop from the record the cursor last returned.
RECURSIVE TruncateAfterLoop(_, _, _, _, _)
TruncateAfterLoop(c, r, end, inclusive, recordsRemoved) ==
    IF c.eof THEN [ru |-> r, recordsRemoved |-> recordsRemoved]
    ELSE LET hit == end < c.lastLoc \/ (inclusive /\ end = c.lastLoc)
             d == IF hit THEN StageDelete(r, c.lastLoc) ELSE r
         IN TruncateAfterLoop(next(c, RuView(d)), d, end, inclusive,
                              recordsRemoved + (IF hit THEN 1 ELSE 0))

\* The ids the forward loop hands to aboutToDeleteCapped, in order.
RECURSIVE TruncateAfterCalls(_, _, _, _)
TruncateAfterCalls(c, r, end, inclusive) ==
    IF c.eof THEN <<>>
    ELSE LET hit == end < c.lastLoc \/ (inclusive /\ end = c.lastLoc)
             d == IF hit THEN StageDelete(r, c.lastLoc) ELSE r
         IN (IF hit THEN <<c.lastLoc>> ELSE <<>>)
                \o TruncateAfterCalls(next(c, RuView(d)), d, end, inclusive)

\* setHighestSeen
setHighestSeen(record) == record

\* The mutexes a step locks while it holds another, as <<held, locked>>. The
\* loop of a deleter pass, under the deleter mutex, locks the visibility mutex in
\* isCappedHidden and then the capped-callback mutex around aboutToDeleteCapped.
PassLocks == {<<"deleter", "visibility">>, <<"deleter", "callback">>}

\* The journal thread unlocks the visibility mutex before it locks the
\* capped-callback mutex.
JournalLocks == {}

\* Whether a next() of the forward loop of cappedTruncateAfter, which runs under
\* the capped-callback mutex, gets to isCappedHidden.
RECURSIVE LoopLocksVisibility(_, _, _, _)
LoopLocksVisibility(c, r, end, inclusive) ==
    IF c.eof THEN FALSE
    ELSE LET hit == end < c.lastLoc \/ (inclusive /\ end = c.lastLoc)
             d == IF hit THEN StageDelete(r, c.lastLoc) ELSE r
         IN \/ CurrLocksVisibility(Advance(c, RuView(d)))
            \/ LoopLocksVisibility(next(c, RuView(d)), d, end, inclusive)

TruncateAfterLocks(t, end, inclusive) ==
    LET r == WithSnapshot(Txn(t))
    IN IF LoopLocksVisibility(seekExact(OwnCursor(r, TRUE), RuView(r), end),
                              r, end, inclusive)
       THEN {<<"callback", "visibility">>}
       ELSE {}

\* if (recordsRemoved) setHighestSeen(lastKeptId): highestSeen after the call.
HighestSeenAfterTruncate(t, end, inclusive) ==
    LET r == WithSnapshot(Txn(t))
        lastKeptId == LastKeptId(r, end, inclusive)
        res == TruncateAfterLoop(seekExact(OwnCursor(r, TRUE), RuView(r), end),
                                 r, end, inclusive, 0)
    IN IF res.recordsRemoved > 0 THEN setHighestSeen(lastKeptId)
       ELSE oplog_highestSeen

\* The caller holds the collection exclusively; the unit of work is the
\* operation's own and commits at its end.
cappedTruncateAfter(t, end, inclusive) ==
    /\ cfg.isCapped
    /\ \A u \in Writers : pc[u] = "idle"
    /\ inclusive => end \in DOMAIN db
    /\ LET r == WithSnapshot(Txn(t))
           res == TruncateAfterLoop(seekExact(OwnCursor(r, TRUE), RuView(r), end),
                                    r, end, inclusive, 0)
       IN /\ oplog_highestSeen' = HighestSeenAfterTruncate(t, end, inclusive)
          /\ db' = ApplyBatch(db, res.ru.put, res.ru.del)
          /\ tracker' = ApplyBatch(tracker, res.ru.tput, res.ru.tdel)
          /\ numRecords' = numRecords + res.ru.dNum
          /\ dataSize' = dataSize + res.ru.dSize
          /\ hist' = IF cfg.history = "calls"
                      THEN [hist EXCEPT !.lastTruncate =
                              [called |-> TruncateAfterCalls(
                                              seekExact(OwnCursor(r, TRUE), RuView(r), end),
                                              r, end, inclusive),
                               failedOn |-> NullId,
                               before |-> DOMAIN db,
                               after |-> DOMAIN ApplyBatch(db, res.ru.put, res.ru.del)]]
                      ELSE Remember([hist EXCEPT !.removed = @ \cup res.ru.del])
    /\ UNCHANGED <<cfg, catalog, storeVars, nextOpTime, uncommittedRecords,
                   opsWaitingForJournal, shuttingDown, journal, pc, ru, pass, cur,
                   waiter>>

\* cappedTruncateAfter whose n-th call of aboutToDeleteCapped fails: the
\* exception leaves the operation and its unit of work rolls back.
cappedTruncateAfterFails(t, end, inclusive, n) ==
    /\ cfg.isCapped
    /\ cfg.history = "calls"
    /\ \A u \in Writers : pc[u] = "idle"
    /\ inclusive => end \in DOMAIN db
    /\ LET r == WithSnapshot(Txn(t))
           calls == TruncateAfterCalls(seekExact(OwnCursor(r, TRUE), RuView(r), end),
                                       r, end, inclusive)
       IN /\ n \in 1 .. Len(calls)
          /\ hist' = [hist EXCEPT !.lastTruncate =
                         [called |-> SubSeq(calls, 1, n), failedOn |-> calls[n],
                          before |-> DOMAIN db, after |-> DOMAIN db]]
    /\ UNCHANGED <<cfg, catalog, engineVars, storeVars, nextOpTime, visVars, shuttingDown,
                   journal, pc, ru, pass, cur, waiter>>

\* ------------------------------------------------------------- specifications
\* What follows an operation: its deleter pass, then commit or rollback.
FinishStep(t) ==
    \/ cappedDeleteAsNeeded(t)
    \/ PassStep(t)
    \/ PassCommit(t)
    \/ PassFinish(t)
    \/ CommitUnitOfWork(t)
    \/ CommitHook(t)
    \/ AbortUnitOfWork(t)
    \/ RollbackHook(t)

\* An inserting thread.
WriterStep(t) ==
    \/ \E len \in cfg.lens : insertRecord(t, len)
    \/ FinishStep(t)

\* An inserting thread whose every unit of work is one insert.
OneInsertStep(t) ==
    \/ \E len \in cfg.lens : pc[t] = "idle" /\ insertRecord(t, len)
    \/ FinishStep(t)

\* The blocking and the timed acquisition of the deleter mutex.
LockStep(t) == DeleterLock(t) \/ DeleterTimedLock(t)

\* The other write operations.
MutateStep(t) ==
    \/ \E loc \in Ids : \E len \in cfg.lens : updateRecord(t, loc, len)
    \/ \E dl \in Ids : deleteRecord(t, dl)
    \/ truncate(t)
    \/ \E end \in Ids : \E inclusive \in BOOLEAN : cappedTruncateAfter(t, end, inclusive)

JournalStep == JournalWait \/ JournalErase

ReaderStep(r) ==
    \/ \E forward \in BOOLEAN : getCursor(r, forward)
    \/ CursorConstruct(r)
    \/ CursorNext(r)
    \/ \E id \in Ids : CursorSeekExact(r, id)

WaiterStep(w) ==
    \/ waitForAllEarlierOplogWritesToBeVisible(w)
    \/ WaiterWake(w)
    \/ WaiterInterrupt(w)
    \/ WaiterReturn(w)

\* A reader of the oplog through one forward cursor.
ForwardReaderStep(r) ==
    \/ getCursor(r, TRUE)
    \/ CursorConstruct(r)
    \/ CursorNext(r)

\* The oplog: concurrent writers, the journal thread, a forward reader.
NextOplog ==
    \/ \E t \in Writers : oplogDiskLocRegister(t) \/ WriterStep(t) \/ DeleterTimedLock(t)
    \/ JournalStep
    \/ \E r \in Readers : ForwardReaderStep(r)

WithIds(c) == [c EXCEPT !.history = "ids"]

SpecOplog == InitWith(WithIds(OplogCfg)) /\ [][NextOplog]_vars

\* Plain and capped stores under concurrent inserting threads.
WithHistory(c) == [c EXCEPT !.history = "all"]

InitStores ==
    \E c \in {PlainCfg, CappedSizeCfg, CappedDocsCfg} : InitWith(WithHistory(c))

NextInsert == \E t \in Writers : OneInsertStep(t) \/ LockStep(t)

SpecInsert == InitStores /\ [][NextInsert]_vars

\* The same stores under one thread, one unit of work at a time.
NextSeq == \E t \in SeqWriters : WriterStep(t) \/ DeleterLock(t)

SpecSeq == InitStores /\ [][NextSeq]_vars

\* One thread, each insert committed or rolled back before the next begins.
NextSeqOne == \E t \in SeqWriters : OneInsertStep(t) \/ DeleterLock(t)

SpecSeqOne == InitStores /\ [][NextSeqOne]_vars

\* A capped store under two threads of one insert per unit of work, or the oplog
\* under one thread, and a reader that uses forward and reverse cursors and
\* seekExact.
InitCapped == \E c \in {CappedDocsCfg, OplogCfg} : InitWith(c)

NextRead ==
    \/ \E t \in SeqWriters : oplogDiskLocRegister(t)
    \/ \E t \in Writers : \E len \in cfg.lens :
           (cfg.isOplog \/ pc[t] = "idle") /\ insertRecord(t, len)
    \/ \E t \in Writers : FinishStep(t) \/ DeleterLock(t)
    \/ JournalStep
    \/ \E r \in Readers : ReaderStep(r)

SpecRead == InitCapped /\ [][NextRead]_vars

\* Every write operation. Thread w1 runs units of work of several operations
\* of every kind (and is the one oplog writer); the other threads run units of
\* work of one insert. The capped stores are opened over a two-byte record.
ReopenedDocsCfg == [CappedDocsCfg EXCEPT !.existing = {EmptyFn, 1 :> 2}]
ReopenedSizeCfg == [CappedSizeCfg EXCEPT !.existing = {EmptyFn, 1 :> 2}, !.lens = {1}]

InitOps ==
    \E c \in {PlainCfg, ReopenedDocsCfg, ReopenedSizeCfg, OplogCfg} : InitWith(c)

NextOps ==
    \/ \E t \in SeqWriters : oplogDiskLocRegister(t) \/ MutateStep(t)
    \/ \E t \in Writers : \E len \in cfg.lens :
           (cfg.isOplog \/ t \in SeqWriters \/ pc[t] = "idle") /\ insertRecord(t, len)
    \/ \E t \in Writers : FinishStep(t) \/ LockStep(t)
    \/ JournalStep

SpecOps == InitOps /\ [][NextOps]_vars

\* The oplog under concurrent writers, the journal thread, and a thread that
\* waits for all earlier oplog writes to be visible.
NextWait ==
    \/ \E t \in Writers : oplogDiskLocRegister(t) \/ WriterStep(t) \/ DeleterTimedLock(t)
    \/ JournalStep
    \/ \E w \in Waiters : WaiterStep(w)

SpecWait == InitWith(OplogCfg) /\ [][NextWait]_vars

\* The oplog under concurrent writers and the journal thread, where every unit
\* of work is eventually committed or rolled back, waitUntilDurable always
\* returns, and the store is not shut down.
NextLive ==
    \/ \E t \in Writers : oplogDiskLocRegister(t) \/ WriterStep(t) \/ DeleterTimedLock(t)
    \/ JournalStep

LiveCfg == [OplogCfg EXCEPT !.lastId = MaxLiveId]

SpecLive ==
    /\ InitWith(LiveCfg)
    /\ [][NextLive]_vars
    /\ \A t \in Writers : WF_vars(FinishStep(t) \/ DeleterTimedLock(t))
    /\ WF_vars(JournalStep)

\* The same, with the ids of the journal thread's last round kept.
SpecRound ==
    /\ InitWith(WithIds(OplogCfg))
    /\ [][NextLive]_vars
    /\ \A t \in Writers : WF_vars(FinishStep(t) \/ DeleterTimedLock(t))
    /\ WF_vars(JournalStep)

\* The oplog under concurrent writers, the journal thread and an uninterrupted
\* waiter. A unit of work that holds an id at or below the one a call waits for
\* is eventually committed or rolled back, waitUntilDurable always returns, the
\* woken waiter runs, and the store is not shut down.
HoldsEarlier(t) ==
    \E w \in Waiters :
        /\ waiter[w].pc \in {"blocked", "check"}
        /\ \E i \in 1 .. Len(ru[t].changes) : ru[t].changes[i] <= waiter[w].waitingFor

EarlierStep(t) == HoldsEarlier(t) /\ (FinishStep(t) \/ DeleterTimedLock(t))

UninterruptedWaiterStep(w) ==
    \/ waitForAllEarlierOplogWritesToBeVisible(w)
    \/ WaiterWake(w)
    \/ WaiterReturn(w)

NextWaitLive ==
    \/ \E t \in Writers : oplogDiskLocRegister(t) \/ WriterStep(t) \/ DeleterTimedLock(t)
    \/ JournalStep
    \/ \E w \in Waiters : UninterruptedWaiterStep(w)

SpecWaitLive ==
    /\ InitWith(OplogCfg)
    /\ [][NextWaitLive]_vars
    /\ \A t \in Writers : WF_vars(EarlierStep(t))
    /\ WF_vars(JournalStep)
    /\ \A w \in Waiters : WF_vars(WaiterWake(w))

\* ------------------------------------------------------- close and reopen
\* The store is destroyed when nothing uses it (the journal thread is joined, the
\* visibility manager goes with the store) and constructed again over the
\* records and the counters the engine holds. A commit applies a unit of work's
\* deltas to the stored counters, so these are numRecords and dataSize.
Reopen ==
    /\ hist.opens < MaxOpens
    /\ \A t \in Writers : pc[t] = "idle"
    /\ \A r \in Readers : ~cur[r].open
    /\ \A w \in Waiters : waiter[w].pc = "idle"
    /\ nextIdNum' = LastIdOf(db) + 1
    /\ oplog_highestSeen' =
           IF cfg.isCapped /\ DOMAIN db # {} THEN LastIdOf(db) ELSE RecordIdMin
    /\ numRecords' = LoadCounter(numRecords)
    /\ dataSize' = LoadCounter(dataSize)
    /\ uncommittedRecords' = <<>>
    /\ opsWaitingForJournal' = <<>>
    /\ journal' = [pc |-> IF cfg.isOplog THEN "check" ELSE "none", ops |-> <<>>,
                    covers |-> {}, last |-> <<>>, join |-> "none", saw |-> "none"]
    /\ cappedOldestKeyHint' = NullId
    /\ cappedDeleterMutex' = NoThread
    /\ ru' = [t \in Writers |-> EmptyRU]
    /\ pass' = [t \in Writers |-> EmptyPass]
    /\ hist' = [hist EXCEPT !.opens = @ + 1]
    /\ UNCHANGED <<cfg, catalog, db, tracker, nextOpTime, shuttingDown, pc, cur, waiter>>

\* One thread's operations, and the store closed and reopened between them.
NextSeqOps ==
    \/ \E t \in SeqWriters :
           oplogDiskLocRegister(t) \/ MutateStep(t) \/ WriterStep(t) \/ DeleterLock(t)
    \/ JournalStep

NextReopen == NextSeqOps \/ Reopen

SpecReopen == InitOps /\ [][NextReopen]_vars

\* Capped stores whose callers also offer a record longer than cappedMaxSize.
LongSizeCfg == [CappedSizeCfg EXCEPT !.lens = {1, 3}]
LongDocsCfg == [CappedDocsCfg EXCEPT !.cappedMaxSize = 1, !.lens = {1, 2}]
LongOplogCfg == [OplogCfg EXCEPT !.lens = {1, 2}]

\* One thread's operations, and a reader that calls oplogStartHack and drops
\* what it got before the thread goes on.
StartingPositions == 1 .. MaxId + 1

NextHack ==
    \/ (\A r \in Readers : ~cur[r].hack.called) /\ NextSeqOps
    \/ \E r \in Readers : \E sp \in StartingPositions : oplogStartHack(r, sp)
    \/ \E r \in Readers :
           /\ cur[r].hack.called
           /\ cur' = [cur EXCEPT ![r] = EmptyCursor]
           /\ UNCHANGED readerFrame

SpecHack == InitCapped /\ [][NextHack]_vars

\* numRecords(opCtx) that leaves the recovery unit's delta out.
numRecordsCommitted(t) == numRecords

\* numRecords(opCtx) and dataSize(opCtx) for thread t: the atomic total plus the
\* delta counter of t's recovery unit.
numRecordsTxn(t) == numRecords + ru[t].dNum

dataSizeTxn(t) == dataSize + ru[t].dSize

\* One thread's operations while the reader has no cursor or has saved it, and
\* a reader that saves and restores its cursor.
InitRestore ==
    \E c \in {[PlainCfg EXCEPT !.lens = {1}], CappedDocsCfg, OplogCfg} : InitWith(c)

NextRestore ==
    \/ /\ \A r \in Readers : cur[r].stage \in {"none", "saved"}
       /\ \/ \E t \in SeqWriters :
                 \/ oplogDiskLocRegister(t)
                 \/ OneInsertStep(t)
                 \/ \E dl \in Ids : deleteRecord(t, dl)
                 \/ DeleterLock(t)
          \/ JournalStep
    \/ \E r \in Readers :
           \/ ReaderStep(r)
           \/ CursorSave(r)
           \/ CursorRestore(r)
           \/ CursorClose(r)

SpecRestore == InitRestore /\ [][NextRestore]_vars

\* The records beyond id in the cursor's direction, and the nearest of them
\* (<<>> when there is none).
Beyond(c, id) ==
    IF c.forward THEN {k \in DOMAIN c.snapDb : k > id}
    ELSE {k \in DOMAIN c.snapDb : k < id}

NearestBeyond(c, id) ==
    IF Beyond(c, id) = {} THEN <<>>
    ELSE IF c.forward THEN <<MinOf(Beyond(c, id))>> ELSE <<MaxOf(Beyond(c, id))>>

NextUnit ==
    \/ /\ \A r \in Readers : cur[r].lock # "X"
       /\ \E t \in SeqWriters :
              oplogDiskLocRegister(t) \/ WriterStep(t) \/ DeleterLock(t)
    \/ JournalStep
    \/ \E r \in Readers : \E forward \in BOOLEAN : \E locker \in Lockers :
           /\ locker = "X" => \A t \in Writers : pc[t] = "idle"
           /\ getCursorAs(r, forward, locker)
    \/ \E r \in Readers :
           CursorConstruct(r) \/ CursorNext(r) \/ CursorDestroy(r) \/ ReaderEnd(r)

SpecUnit == InitCapped /\ [][NextUnit]_vars

Erased == SeqElems(uncommittedRecords) \ SeqElems(uncommittedRecords')

\* C26 as stated: an id leaves the uncommitted set only in the rollback hook of
\* the unit of work that added it or in the journal thread's erase after
\* waitUntilDurable.
ShrinksOnRollbackOrJournalOnly ==
    [][Erased # {} =>
          \/ \E t \in Writers : RollbackHook(t) /\ Erased = {Last(ru[t].changes)}
          \/ JournalErase /\ Erased \subseteq SeqElems(journal.ops)]_vars

\* C26: an id leaves the uncommitted set only in three places: the rollback hook
\* of the unit of work that added it; the journal thread's erase after
\* waitUntilDurable, for the ids it had swapped out; and the commit hook of the
\* unit of work that added it, when the store is no oplog or the id is the
\* current highestSeen.
ShrinksOnRollbackJournalOrCommit ==
    [][Erased # {} =>
          \/ \E t \in Writers : RollbackHook(t) /\ Erased = {Last(ru[t].changes)}
          \/ JournalErase /\ Erased \subseteq SeqElems(journal.ops)
          \/ \E t \in Writers :
                 /\ CommitHook(t)
                 /\ Erased = {Head(ru[t].changes)}
                 /\ ~cfg.isOplog \/ Head(ru[t].changes) = oplog_highestSeen]_vars

ShrinksOnRollbackJournalOrCommitWitness ==
    /\ cfg.isCapped /\ ~cfg.isOplog
    /\ \A t \in Writers : pc[t] = "idle"
    /\ uncommittedRecords = <<>>
    /\ \E id \in DOMAIN db : id \in 2 .. nextIdNum - 1

\* C27: the commit hook. On the commit of an oplog insert whose id is not the
\* current highestSeen the id stays in the uncommitted set and is appended to
\* opsWaitingForJournal; on the commit of an insert into a capped store that is
\* no oplog, or of an oplog insert whose id is highestSeen, the id is erased from
\* the uncommitted set in the hook itself and nothing is queued.
CommitHookRule ==
    [][\A t \in Writers :
          CommitHook(t) =>
              LET id == Head(ru[t].changes)
              IN IF cfg.isOplog /\ id # oplog_highestSeen
                 THEN /\ uncommittedRecords' = uncommittedRecords
                      /\ id \in SeqElems(uncommittedRecords')
                      /\ opsWaitingForJournal' = Append(opsWaitingForJournal, id)
                 ELSE /\ id \notin SeqElems(uncommittedRecords')
                      /\ SeqElems(uncommittedRecords') = SeqElems(uncommittedRecords) \ {id}
                      /\ opsWaitingForJournal' = opsWaitingForJournal
                      /\ journal' = journal]_vars

CommitHookRuleWitness ==
    /\ cfg.isOplog
    /\ opsWaitingForJournal # <<>>
    /\ Head(opsWaitingForJournal) \in SeqElems(uncommittedRecords)
    /\ Head(opsWaitingForJournal) \in DOMAIN db
    /\ oplog_highestSeen \in DOMAIN db
    /\ oplog_highestSeen \notin SeqElems(uncommittedRecords)

\* The ids whose erase a commit hook has deferred and the journal thread has
\* not done yet.
Queued == SeqElems(opsWaitingForJournal) \cup SeqElems(journal.ops)

\* The ids a step takes out of the hidden region.
BecomesVisible(id) ==
    /\ isCappedHidden(id)
    /\ uncommittedRecords' = <<>> \/ Head(uncommittedRecords') > id

\* C28 as stated: a committed oplog id stops being capped-hidden only in the
\* journal thread's erase, after a waitUntilDurable that began once the id's
\* commit had returned.
VisibleOnlyOnceDurable ==
    [][\A id \in hist.committed :
          BecomesVisible(id) => JournalErase /\ id \in journal.covers]_vars

\* C28: an oplog id whose commit hook deferred its erase (the id was not
\* highestSeen) stays capped-hidden until the journal thread erases it, after a
\* waitUntilDurable that began once the id had been committed and queued; when
\* it stops being hidden no lower id is left in the uncommitted set.
DeferredVisibleOnlyOnceDurable ==
    /\ [](Queued \subseteq SeqElems(uncommittedRecords))
    /\ [][\A id \in Queued :
             BecomesVisible(id) =>
                 /\ JournalErase
                 /\ id \in SeqElems(journal.ops)
                 /\ id \in journal.covers
                 /\ \A u \in SeqElems(uncommittedRecords') : u > id]_vars

DeferredVisibleOnlyOnceDurableWitness ==
    /\ cfg.isOplog
    /\ journal.last # <<>>
    /\ \E id \in SeqElems(journal.last) : id \in DOMAIN db /\ ~isCappedHidden(id)
    /\ uncommittedRecords # <<>>

\* C29: a round of the journal thread (not shut down, its waitUntilDurable
\* always returning). The erase after waitUntilDurable takes out of the
\* uncommitted set exactly the ids swapped out of opsWaitingForJournal before the
\* call; an id queued during the call stays queued and in the set through that
\* erase; a queued id leaves the set only in the erase of a round that had
\* swapped it out before its own waitUntilDurable, and every queued id is
\* eventually swapped out and then erased.
JournalRound ==
    /\ [][JournalErase =>
             /\ journal.pc = "durable"
             /\ Erased = SeqElems(journal.ops)
             /\ opsWaitingForJournal' = opsWaitingForJournal
             /\ SeqElems(opsWaitingForJournal) \subseteq SeqElems(uncommittedRecords')]_vars
    /\ [][\A id \in Queued :
             id \in Erased => JournalErase /\ id \in SeqElems(journal.ops)]_vars
    /\ \A i \in Ids :
          /\ (i \in SeqElems(opsWaitingForJournal)) ~> (i \in SeqElems(journal.ops))
          /\ (i \in SeqElems(journal.ops)) ~> (i \in SeqElems(journal.last))

JournalRoundWitness ==
    /\ journal.pc = "durable"
    /\ journal.ops # <<>>
    /\ opsWaitingForJournal = <<>>
    /\ journal.last # <<>>
    /\ \E id \in SeqElems(journal.ops) :
           /\ id \in SeqElems(uncommittedRecords)
           /\ \A u \in SeqElems(journal.last) : u < id /\ u \notin SeqElems(uncommittedRecords)

\* The ids whose delete a step of thread t's pass stages.
PassStages(t) == pass'[t].sub.del \ pass[t].sub.del

\* C30: a deleter pass stages the delete of no record that is capped-hidden
\* when the pass examines it (id >= the least uncommitted id) and of no record
\* with id >= justInserted, the record that triggered the pass included; the
\* pass ends its loop at the first such record, and once the loop has ended the
\* pass stages nothing more.
PassStopsAtHiddenOrNewer ==
    /\ [](\A t \in Writers : \A id \in pass[t].sub.del : id < pass[t].justInserted)
    /\ [][\A t \in Writers :
             /\ \A id \in PassStages(t) :
                    /\ pc[t] = "pass"
                    /\ id = pass[t].iter
                    /\ ~isCappedHidden(id)
                    /\ id < pass[t].justInserted
             /\ (/\ pc[t] = "pass"
                 /\ pass[t].iter # NullId
                 /\ isCappedHidden(pass[t].iter) \/ pass[t].iter >= pass[t].justInserted
                 /\ PassStep(t))
                    => /\ pc'[t] \in {"passCommit", "passFinish"}
                       /\ pass'[t] = pass[t]
             /\ pc[t] \in {"passCommit", "passFinish"} => PassStages(t) = {}]_vars

PassStopsAtHiddenOrNewerWitness ==
    \E t \in Writers :
        /\ pc[t] = "passCommit"
        /\ pass[t].sub.del # {}
        /\ PassContinues(pass[t])
        /\ isCappedHidden(pass[t].iter)
        /\ pass[t].iter < pass[t].justInserted
        /\ pass[t].iter \in DOMAIN db

\* Whether a sequence holds no element twice.
NoDuplicates(s) == \A i, j \in 1 .. Len(s) : s[i] = s[j] => i = j

OwnRecords(t) ==
    Cardinality(DOMAIN RuView(ru[t])) - Cardinality(DOMAIN ru[t].snapDb)

OwnSize(t) ==
    SumOver(RuView(ru[t]), DOMAIN RuView(ru[t]))
        - SumOver(ru[t].snapDb, DOMAIN ru[t].snapDb)

\* C23: counter read-your-writes. For every thread, numRecords(txn) and
\* dataSize(txn) are the committed totals plus what the thread's own staged
\* inserts, updates and deletes add to the records it reads, and nothing of what
\* any other thread has staged and not committed.
CountersReadOwnWrites ==
    \A t \in Writers :
        /\ numRecordsTxn(t) = numRecords + OwnRecords(t)
        /\ dataSizeTxn(t) = dataSize + OwnSize(t)

CountersReadOwnWritesWitness ==
    /\ pc["w1"] = "txn" /\ pc["w2"] = "txn"
    /\ OwnRecords("w1") = -1 /\ numRecordsTxn("w1") = numRecords - 1
    /\ OwnRecords("w2") = 1 /\ numRecordsTxn("w2") = numRecords + 1
    /\ OwnSize("w1") < 0 /\ OwnSize("w2") > 0

\* Every write operation, with the history of the operations kept.
WithOps(c) == [c EXCEPT !.history = "ops"]

InitTruncate ==
    \E c \in {ReopenedDocsCfg, ReopenedSizeCfg, OplogCfg} : InitWith(WithOps(c))

SpecTruncate == InitTruncate /\ [][NextOps]_vars

\* Every write operation, over a capped callback that may throw.
Exceptions == {"WriteConflict", "other"}

NextThrow ==
    \/ NextOps
    \/ \E t \in Writers : \E exc \in Exceptions : PassThrows(t, exc)

InitThrow == \E c \in {CappedDocsCfg, ReopenedSizeCfg, OplogCfg} : InitWith(c)

SpecThrow == InitThrow /\ [][NextThrow]_vars

\* One thread that inserts and calls cappedTruncateAfter, over a capped callback
\* that may throw; the calls of the callback are kept.
InitCallback ==
    \E c \in {CappedDocsCfg, ReopenedSizeCfg, OplogCfg} :
        InitWith([c EXCEPT !.history = "calls"])

NextCallback ==
    \/ \E t \in SeqWriters :
           oplogDiskLocRegister(t) \/ WriterStep(t) \/ DeleterLock(t)
    \/ JournalStep
    \/ \E t \in SeqWriters : \E exc \in Exceptions : PassThrows(t, exc)
    \/ \E t \in SeqWriters : \E end \in Ids : \E inclusive \in BOOLEAN :
           \/ cappedTruncateAfter(t, end, inclusive)
           \/ \E n \in 1 .. MaxId : cappedTruncateAfterFails(t, end, inclusive, n)

SpecCallback == InitCallback /\ [][NextCallback]_vars

InitLong ==
    \E c \in {LongSizeCfg, LongDocsCfg, LongOplogCfg} : InitWith(WithOps(c))

\* Threads that insert, several records in a unit of work.
NextLong ==
    \/ \E t \in Writers : oplogDiskLocRegister(t) \/ WriterStep(t) \/ LockStep(t)
    \/ JournalStep

SpecLong == InitLong /\ [][NextLong]_vars

\* Inserting threads over stores that are soon over their cap: one document, or
\* two bytes, or the oplog's one byte.
TightDocsCfg == [CappedDocsCfg EXCEPT !.cappedMaxDocs = 1]

InitTight == \E c \in {TightDocsCfg, CappedSizeCfg, OplogCfg} : InitWith(c)

SpecTight == InitTight /\ [][NextLong]_vars

\* The oplog beside a background deleter thread. The slack (a tenth of the
\* cap) is two bytes and the store is opened over one record a byte longer than
\* the cap: the first insert finds the store over its cap but within the slack,
\* an insert after a commit finds it beyond.
BackgroundCfg ==
    [OplogCfg EXCEPT !.hasBackgroundThread = TRUE, !.cappedMaxSize = 20,
                     !.existing = {1 :> 21}]

\* The background deleter thread as the mutex sees it.
BackgroundThread == "background"

\* The background thread takes the deleter mutex for a pass of its own.
BackgroundLock ==
    /\ cfg.hasBackgroundThread
    /\ cappedDeleterMutex = NoThread
    /\ cappedDeleterMutex' = BackgroundThread
    /\ UNCHANGED <<cfg, catalog, engineVars, nextIdNum, cappedOldestKeyHint, nextOpTime,
                   visVars, shuttingDown, journal, pc, ru, pass, cur, waiter, hist>>

\* Its pass, by its effect on the committed state: while the store is over its
\* cap, the oldest record that is not capped-hidden is removed, a record a step.
BackgroundEvict ==
    /\ cappedDeleterMutex = BackgroundThread
    /\ dataSize > cfg.cappedMaxSize
    /\ LET oldest == Seek(tracker, cappedOldestKeyHint)
       IN /\ oldest # NullId
          /\ ~isCappedHidden(oldest)
          /\ oldest \notin OwnedByOthers(BackgroundThread, TRUE)
          /\ db' = FnDel(db, oldest)
          /\ tracker' = FnDel(tracker, oldest)
          /\ numRecords' = numRecords - 1
          /\ dataSize' = dataSize - decodeSize(tracker[oldest])
          /\ hist' = Remember([hist EXCEPT !.removed = @ \cup {oldest}])
    /\ UNCHANGED <<cfg, catalog, storeVars, nextOpTime, visVars, shuttingDown, journal,
                   pc, ru, pass, cur, waiter>>

\* The background thread's pass ends and the mutex is free again.
BackgroundUnlock ==
    /\ cappedDeleterMutex = BackgroundThread
    /\ cappedDeleterMutex' = NoThread
    /\ UNCHANGED <<cfg, catalog, engineVars, nextIdNum, cappedOldestKeyHint, nextOpTime,
                   visVars, shuttingDown, journal, pc, ru, pass, cur, waiter, hist>>

\* Inserting threads beside the background thread.
NextBackground ==
    \/ \E t \in Writers : oplogDiskLocRegister(t)
    \/ \E t \in Writers : \E len \in cfg.lens : insertRecord(t, len)
    \/ \E t \in Writers : cappedDeleteAsNeeded(t)
    \/ \E t \in Writers : BackPressureDone(t)
    \/ \E t \in Writers : CommitUnitOfWork(t) \/ CommitHook(t)
    \/ \E t \in Writers : AbortUnitOfWork(t) \/ RollbackHook(t)
    \/ JournalStep
    \/ BackgroundLock \/ BackgroundEvict \/ BackgroundUnlock

SpecBackground == InitWith(BackgroundCfg) /\ [][NextBackground]_vars

\* The oplog under concurrent writers and the journal thread, shut down at any
\* moment; waitUntilDurable always returns.
NextShutdown ==
    \/ \E t \in Writers : oplogDiskLocRegister(t) \/ WriterStep(t) \/ DeleterTimedLock(t)
    \/ JournalStep
    \/ JoinStep

SpecShutdown ==
    /\ InitWith(OplogCfg)
    /\ [][NextShutdown]_vars
    /\ WF_vars(JournalStep)
    /\ WF_vars(JoinStep)

\* The config server: shardCollection calls one at a time, for any namespace,
\* primary shard, initial points and distribution option, over any of the shard
\* registries below, with the first shard draining or not; the writes to
\* config.chunks and config.collections may fail; chunks may be deleted by hand.
ShardRegistries ==
    {<<"s1">>, <<"s1", "s2">>, <<"s2", "s1">>, <<"s2", "s1", "s3">>}

\* The initial points a caller hands in: none, one, two out of order, the same
\* one twice, three of which two are the same.
InitPointChoices == {<<>>, <<2>>, <<3, 1>>, <<2, 2>>, <<3, 1, 3>>}

\* What selectChunkSplitPoints returns for a collection with documents.
PickedChoices == {<<>>, <<2>>, <<1, 3>>}

InitSharding ==
    /\ InitStore(PlainCfg)
    /\ \E shards \in ShardRegistries : \E draining \in {{}, {"s1"}} :
           catalog = [EmptyCatalog EXCEPT !.shards = shards, !.draining = draining]

NextSharding ==
    \/ \E ns \in Namespaces : \E primary \in {"s1", "s3"} :
       \E initPoints \in InitPointChoices : \E distribute \in BOOLEAN :
       \E numObjects \in {0, 1} : \E picked \in PickedChoices :
           shardCollection(ns, primary, initPoints, distribute, numObjects, picked)
    \/ WriteChunk
    \/ WriteChunkFails
    \/ WriteCollectionEntry
    \/ WriteCollectionEntryFails
    \/ ShardCollectionReturns
    \/ \E ns \in Namespaces : RemoveChunks(ns)

SpecSharding == InitSharding /\ [][NextSharding]_vars

\* ---------------------------------------------------------------- claims

MonotonicAllocation ==
    ~cfg.isOplog =>
        \A i, j \in 1 .. Len(hist.allocated) :
            i < j => hist.allocated[i] < hist.allocated[j]

\* A unit of work rolled its insert back and a later insert has been given an id.
MonotonicAllocationWitness ==
    \E t \in Writers :
        /\ ~cfg.isOplog
        /\ pc[t] = "idle" /\ ru[t].outcome = "aborted" /\ ru[t].ins # {}
        /\ Last(hist.allocated) > MaxOf(ru[t].ins)

\* The committed state right after a unit of work by t that inserted ended as
\* outcome says, with nothing else in progress.
AfterInsertTxn(t, outcome) ==
    /\ pc[t] = "idle"
    /\ ru[t].outcome = outcome
    /\ ru[t].ins # {}

\* The ids of a rolled-back unit of work have left the uncommitted set, and the
\* allocator is past them.
RollbackForgetsIds(t) ==
    /\ ru[t].ins \cap SeqElems(uncommittedRecords) = {}
    /\ \A i \in ru[t].ins : NextIdValue > i

\* C5 as stated: after the rollback of a unit of work that inserted records,
\* numRecords, dataSize and the live keys are exactly those before the unit of
\* work, its ids have left the uncommitted set and the allocator has not
\* reverted.
RollbackRestoresExactly ==
    \A t \in SeqWriters :
        AfterInsertTxn(t, "aborted") =>
            /\ db = ru[t].before.db
            /\ numRecords = ru[t].before.numRecords
            /\ dataSize = ru[t].before.dataSize
            /\ RollbackForgetsIds(t)

\* C5: after the rollback of a unit of work that inserted records, the live
\* keys, numRecords and dataSize are those before the unit of work less the
\* records its capped deleter passes evicted (those commit on their own); its
\* ids have left the uncommitted set and the allocator has not reverted.
RollbackKeepsEvictions ==
    \A t \in SeqWriters :
        AfterInsertTxn(t, "aborted") =>
            LET before == ru[t].before
                evicted == ru[t].evicted
            IN /\ evicted \subseteq DOMAIN before.db
               /\ (~cfg.isCapped => evicted = {})
               /\ db = [k \in (DOMAIN before.db) \ evicted |-> before.db[k]]
               /\ numRecords = before.numRecords - Cardinality(evicted)
               /\ dataSize = before.dataSize - SumOver(before.db, evicted)
               /\ RollbackForgetsIds(t)

\* A unit of work inserted two records, its pass evicted one, and it rolled back.
RollbackKeepsEvictionsWitness ==
    \E t \in SeqWriters :
        /\ AfterInsertTxn(t, "aborted")
        /\ ru[t].evicted # {}
        /\ Cardinality(ru[t].ins) >= 2

CappedBoundWhenQuiescent ==
    (/\ cfg.isCapped
     /\ \A t \in Writers : pc[t] = "idle"
     /\ hist.committed # {}
     /\ numRecords - cfg.cappedMaxDocs < kMaxDocsPerPass) =>
        /\ dataSize <= cfg.cappedMaxSize
        /\ (cfg.cappedMaxDocs = -1 \/ numRecords <= cfg.cappedMaxDocs)

\* C2 as stated: no cursor operation (forward next, reverse next, seekExact) of
\* a capped store or oplog returns a record whose id is at or above the smallest
\* id of the uncommitted set at the moment it is returned.
NoOperationReturnsHidden ==
    \A r \in Readers :
        (cfg.isCapped /\ cur[r].lastRet.op # "none") => ~cur[r].lastRet.hidden

\* C2: next() of a forward cursor of a capped store or oplog never returns a
\* record whose id is at or above the smallest id of the uncommitted set at the
\* moment it is returned; reverse cursors and seekExact are not filtered.
ForwardNextReturnsNoHidden ==
    \A r \in Readers :
        (cfg.isCapped /\ cur[r].forward /\ cur[r].lastRet.op = "next") =>
            ~cur[r].lastRet.hidden

\* A forward cursor has returned a record and stopped in front of a committed
\* record of its snapshot that an older uncommitted insert hides.
ForwardNextReturnsNoHiddenWitness ==
    \E r \in Readers :
        /\ cfg.isCapped /\ cur[r].forward /\ cur[r].lastRet.op = "next"
        /\ cur[r].eof
        /\ cur[r].lastLoc \in DOMAIN cur[r].snapDb
        /\ cur[r].lastLoc > cur[r].lastRet.id
        /\ isCappedHidden(cur[r].lastLoc)

\* C4: counter consistency. Whenever no unit of work is open, numRecords is the
\* number of live keys under the collection prefix and dataSize the sum of their
\* value lengths, whatever inserts, updates, deletes, truncates,
\* cappedTruncateAfters and capped evictions have committed.
CounterConsistency ==
    (\A t \in Writers : pc[t] = "idle") =>
        /\ numRecords = Cardinality(DOMAIN db)
        /\ dataSize = SumOver(db, DOMAIN db)

\* A quiescent capped store in which records 2 and 3 have been committed and
\* record 1 has been removed (evicted, deleted or truncated away).
CounterConsistencyWitness ==
    /\ \A t \in Writers : pc[t] = "idle"
    /\ cfg.isCapped /\ ~cfg.isOplog
    /\ DOMAIN db = {2, 3}
    /\ numRecords = 2
    /\ dataSize = 2

\* C6: oplog shadow equivalence. In an oplog store the ids under the tracker
\* prefix are at every commit boundary the ids under the collection prefix, and
\* each tracker value decodes to the length of the payload under the same id.
OplogShadowEquivalence ==
    cfg.isOplog =>
        /\ DOMAIN tracker = DOMAIN db
        /\ \A id \in DOMAIN db : decodeSize(tracker[id]) = db[id]

\* An oplog opened over a two-byte record 1: an update has shrunk the record to
\* one byte, and an eviction or a delete has removed a later record.
OplogShadowEquivalenceWitness ==
    /\ cfg.isOplog
    /\ 1 \in DOMAIN db /\ db[1] = 1
    /\ nextOpTime > 2
    /\ 2 \notin DOMAIN db
    /\ \A t \in Writers : pc[t] = "idle"

\* C10: waitForAllEarlierOplogWritesToBeVisible, when not interrupted, has
\* returned only where the uncommitted set is empty or its minimum is greater
\* than the highestSeen sampled when the call started; while an id at or below
\* the sampled one is in the uncommitted set (in flight, or committed and
\* waiting for the journal thread) the call has not returned.
WaitReturnsOnlyWhenEarlierVisible ==
    \A w \in Waiters :
        waiter[w].pc = "done" =>
            \/ uncommittedRecords = <<>>
            \/ MinOf(SeqElems(uncommittedRecords)) > waiter[w].waitingFor

\* A call that had to wait has returned while a later id is still uncommitted.
WaitReturnsOnlyWhenEarlierVisibleWitness ==
    \E w \in Waiters :
        /\ waiter[w].pc = "done"
        /\ waiter[w].waited
        /\ uncommittedRecords # <<>>
        /\ Head(uncommittedRecords) > waiter[w].waitingFor

\* The ids of s come in increasing order.
Increasing(s) == \A i, j \in 1 .. Len(s) : i < j => s[i] < s[j]

\* C9: eventual visibility. In an oplog whose units of work all end, whose
\* journal thread always gets its waitUntilDurable back and which is not shut
\* down, every id in the uncommitted set is eventually out of it, and every
\* committed record is eventually (unless removed) among the records a newly
\* opened forward cursor returns, which come in increasing id order.
EventualVisibility ==
    \A i \in LiveIds :
        /\ (i \in SeqElems(uncommittedRecords)) ~> (i \notin SeqElems(uncommittedRecords))
        /\ (i \in DOMAIN db) ~>
               \/ i \notin DOMAIN db
               \/ i \in SeqElems(ForwardScan) /\ Increasing(ForwardScan)

\* C11: waiter liveness. An uninterrupted waitForAllEarlierOplogWritesToBeVisible
\* call that has to wait eventually returns, whatever higher ids other writers
\* register meanwhile, when the units of work holding ids at or below the
\* sampled one end and the journal thread gets its waitUntilDurable back: no
\* wake-up is lost.
WaiterEventuallyReturns ==
    \A w \in Waiters : (waiter[w].pc = "blocked") ~> (waiter[w].pc = "done")

\* A call is blocked on an id that has committed and waits in the journal
\* thread's round, while a higher id has been registered since the call began.
WaiterEventuallyReturnsWitness ==
    \E w \in Waiters :
        /\ waiter[w].pc = "blocked"
        /\ journal.pc = "durable"
        /\ \E i \in SeqElems(journal.ops) : i <= waiter[w].waitingFor
        /\ \E u \in SeqElems(uncommittedRecords) : u > waiter[w].waitingFor

\* The step that commits a unit of work of thread t whose last operation was a
\* truncate, and the empty store.
CommitsTruncate(t) ==
    /\ ru[t].truncated
    /\ ru[t].outcome = "none"
    /\ ru'[t].outcome = "committed"

NothingLeft ==
    /\ db = EmptyFn
    /\ cfg.isOplog => tracker = EmptyFn
    /\ numRecords = 0
    /\ dataSize = 0

\* C12 as stated: truncate emptiness. The commit of a truncate leaves no key
\* under the collection prefix, none under the tracker prefix of an oplog, and
\* both counters at 0.
TruncateLeavesNothing ==
    [][\A t \in Writers : CommitsTruncate(t) => NothingLeft']_vars

\* C12: truncate emptiness, with exclusive access. The commit of a truncate that
\* no other transaction's commit has come between (the store is as the truncate's
\* snapshot has it) leaves no key under the collection prefix, none under the
\* tracker prefix of an oplog, whatever the records' visibility, and both
\* counters at 0.
ExclusiveTruncateLeavesNothing ==
    [][\A t \in Writers :
          (CommitsTruncate(t) /\ ru[t].snapDb = db /\ ru[t].snapTr = tracker)
              => NothingLeft']_vars

\* A truncate has committed and removed at least two records; the store is empty.
ExclusiveTruncateLeavesNothingWitness ==
    \E t \in Writers :
        /\ ru[t].truncated
        /\ ru[t].outcome = "committed"
        /\ Cardinality(hist.removed) >= 2
        /\ NothingLeft

BadValueChangesNothing ==
    [][\A t \in Writers : \A len \in cfg.lens :
          (insertRecord(t, len) /\ cfg.isCapped /\ len > cfg.cappedMaxSize)
              => /\ UNCHANGED <<nextIdNum, nextOpTime, visVars, engineVars>>
                 /\ UNCHANGED <<cappedDeleterMutex, cappedOldestKeyHint, pc, pass>>
                 /\ ru'[t].put = ru[t].put /\ ru'[t].tput = ru[t].tput
                 /\ ru'[t].del = ru[t].del /\ ru'[t].tdel = ru[t].tdel
                 /\ ru'[t].dNum = ru[t].dNum /\ ru'[t].dSize = ru[t].dSize
                 /\ ru'[t].changes = ru[t].changes
                 /\ \A u \in Writers \ {t} : ru'[u] = ru[u]]_vars

\* An insert has failed with BadValue in a unit of work that had staged an
\* insert before and has it still.
BadValueChangesNothingWitness ==
    \E t \in Writers :
        /\ ru[t].badValue
        /\ pc[t] = "txn"
        /\ ru[t].dNum = 1
        /\ DOMAIN ru[t].put # {}
        /\ uncommittedRecords # <<>>

\* The writes and the deltas a recovery unit has staged.
Staged(r) == <<r.put, r.del, r.tput, r.tdel, r.dNum, r.dSize>>

\* C15: when registerWrite rejects the key, deleteRecord and updateRecord raise
\* WriteConflict to the caller before they stage any write: the record, the
\* tracker entry, both counters and the transaction's deltas are as they were.
ConflictStagesNothing ==
    [][\A t \in Writers : \A key \in Ids :
          (/\ ~registerWriteOK(t, FALSE, Txn(t), key)
           /\ deleteRecord(t, key) \/ \E len \in cfg.lens : updateRecord(t, key, len))
              => /\ pc'[t] = "abort"
                 /\ Staged(ru'[t]) = Staged(Txn(t))
                 /\ UNCHANGED engineVars]_vars

\* deleteRecord or updateRecord has thrown on a live key in a unit of work that
\* had staged a write before, and the write is all that is staged.
ConflictStagesNothingWitness ==
    \E t \in Writers :
        /\ pc[t] = "abort"
        /\ ru[t].threwOn \in DOMAIN db
        /\ ru[t].nops = 1
        /\ ru[t].threwOn \notin DOMAIN ru[t].put \cup ru[t].del

\* C16: a WriteConflict raised inside a capped deleter pass is swallowed. The
\* pass returns to the insert or update that triggered it, which goes on with
\* its write staged; none of the pass's deletions or counter changes is applied
\* or kept; the caller's recovery unit is back with its staged writes and deltas
\* as they were. The caller's recovery unit is as it was after a successful pass
\* and after any other exception too, which goes on to the caller.
PassConflictSwallowed ==
    [][\A t \in Writers :
          /\ PassThrows(t, "WriteConflict")
                => /\ pc'[t] = "txn"
                   /\ pass[t].justInserted \in DOMAIN ru'[t].put
                   /\ UNCHANGED engineVars
                   /\ pass'[t].sub = EmptyRU
                   /\ Staged(ru'[t]) = Staged(ru[t])
          /\ PassThrows(t, "other")
                => /\ pc'[t] = "abort"
                   /\ UNCHANGED engineVars
                   /\ Staged(ru'[t]) = Staged(ru[t])
          /\ (PassStep(t) \/ PassCommit(t) \/ PassFinish(t))
                => Staged(ru'[t]) = Staged(ru[t])]_vars

\* A pass over a store beyond its document cap ended with a WriteConflict:
\* nothing was evicted and the caller's insert is staged.
PassConflictSwallowedWitness ==
    \E t \in Writers :
        /\ pass[t].raised = "WriteConflict"
        /\ pc[t] = "txn"
        /\ ru[t].dNum = 1
        /\ numRecords + ru[t].dNum > Cardinality(DOMAIN db)
        /\ cfg.isCapped /\ ~cfg.isOplog /\ cfg.cappedMaxDocs # -1
        /\ numRecords + ru[t].dNum > cfg.cappedMaxDocs

\* The order the mutexes are to be taken in.
LockOrder ==
    {<<"deleter", "visibility">>, <<"deleter", "callback">>,
     <<"visibility", "callback">>}

\* C17: lock ordering. No step of any operation locks the visibility mutex or the
\* deleter mutex while it holds the capped-callback mutex, nor the deleter
\* mutex while it holds the visibility mutex: every mutex locked while another
\* is held follows the order deleter, visibility, callback; the journal thread
\* holds no mutex when it locks the callback mutex.
LockOrdering ==
    [][/\ \A t \in Writers : PassStep(t) => PassLocks \subseteq LockOrder
       /\ JournalStep => JournalLocks \subseteq LockOrder
       /\ \A t \in Writers : \A end \in Ids : \A inclusive \in BOOLEAN :
              cappedTruncateAfter(t, end, inclusive)
                  => TruncateAfterLocks(t, end, inclusive) \subseteq LockOrder]_vars

\* A thread inside cappedDeleteAsNeeded_inlock.
InPass(t) == pc[t] \in {"pass", "passCommit", "passFinish"}

\* C18: at most one deleter pass is active at any time; the thread in a pass
\* holds the deleter mutex for the whole pass, so the passes of concurrent
\* inserts or updates never overlap.
OnePassAtATime ==
    \A t \in Writers :
        InPass(t) => /\ cappedDeleterMutex = t
                     /\ \A u \in Writers \ {t} : ~InPass(u)

\* One thread is in a pass that has staged a deletion while another waits for
\* the deleter mutex.
OnePassAtATimeWitness ==
    \E t, u \in Writers :
        /\ InPass(t)
        /\ pass[t].docsRemoved > 0
        /\ pc[u] \in {"lockWait", "lockTimed"}

\* The records cappedTruncateAfter(end, inclusive) is to keep.
KeptAfter(end, inclusive) ==
    {i \in DOMAIN db : i < end \/ (i = end /\ ~inclusive)}

\* C19: cappedTruncateAfter(end, inclusive) on an existing record end, with
\* exclusive access and no uncommitted inserts, leaves live exactly the records
\* with id < end, and end itself when not inclusive, as they were, and lowers
\* numRecords and dataSize by the count and the total length of the others.
TruncateAfterKeepsBelow ==
    [][\A t \in Writers : \A end \in Ids : \A inclusive \in BOOLEAN :
          (/\ cappedTruncateAfter(t, end, inclusive)
           /\ end \in DOMAIN db
           /\ uncommittedRecords = <<>>)
              => LET kept == KeptAfter(end, inclusive)
                     gone == DOMAIN db \ kept
                 IN /\ DOMAIN db' = kept
                    /\ \A i \in kept : db'[i] = db[i]
                    /\ cfg.isOplog => DOMAIN tracker' = kept
                    /\ numRecords' = numRecords - Cardinality(gone)
                    /\ dataSize' = dataSize - SumOver(db, gone)]_vars

\* The last id cappedTruncateAfter(end, inclusive) keeps.
LastKept(end, inclusive) ==
    LET below == {i \in DOMAIN db : i < end}
    IN IF ~inclusive THEN end
       ELSE IF below = {} THEN RecordIdMin ELSE MaxOf(below)

\* C20 as stated: highestSeen after a cappedTruncateAfter, whenever one can be
\* called on a live record, is the last kept id: end when not inclusive, else
\* the greatest live id below end or RecordId::min().
HighestSeenIsLastKept ==
    \A t \in Writers : \A end \in DOMAIN db : \A inclusive \in BOOLEAN :
        (cfg.isCapped /\ \A u \in Writers : pc[u] = "idle")
            => HighestSeenAfterTruncate(t, end, inclusive) = LastKept(end, inclusive)

\* C20: after a cappedTruncateAfter that removed at least one record, highestSeen
\* is the last kept id: end when not inclusive, else the greatest live id below
\* end or RecordId::min(). One that removed nothing leaves highestSeen as it was.
HighestSeenIsLastKeptAfterRemoval ==
    [][\A t \in Writers : \A end \in Ids : \A inclusive \in BOOLEAN :
          (cappedTruncateAfter(t, end, inclusive) /\ end \in DOMAIN db)
              => IF DOMAIN db' # DOMAIN db
                 THEN oplog_highestSeen' = LastKept(end, inclusive)
                 ELSE oplog_highestSeen' = oplog_highestSeen]_vars

\* An inclusive cappedTruncateAfter at the first record has emptied a capped
\* store that had handed out ids: highestSeen is RecordId::min().
HighestSeenIsLastKeptAfterRemovalWitness ==
    /\ cfg.isCapped
    /\ DOMAIN db = {}
    /\ oplog_highestSeen = RecordIdMin
    /\ nextIdNum > 1 \/ nextOpTime > 1
    /\ \A t \in Writers : pc[t] = "idle"

\* C21: oplogStartHack(startingPosition) of an oplog store returns the greatest
\* id in the tracker that is <= startingPosition, the null RecordId when there is
\* none (an empty store included), and no value at all for a store that is no
\* oplog.
StartHackFindsGreatestBelow ==
    \A r \in Readers :
        LET h == cur[r].hack
            below == {k \in h.keys : k <= h.at}
        IN h.called =>
              IF ~cfg.isOplog THEN h.got = <<>>
              ELSE IF below = {} THEN h.got = <<NullId>>
              ELSE h.got = <<MaxOf(below)>>

\* The call was made between two tracker keys and returned the lower one.
StartHackFindsGreatestBelowWitness ==
    \E r \in Readers :
        /\ cur[r].hack.called
        /\ cur[r].hack.keys = {1, 3}
        /\ cur[r].hack.at = 2
        /\ cur[r].hack.got = <<1>>

\* The ids a pass has staged for deletion, and the snapshot it iterates.
PassStaged(t) == IF cfg.isOplog THEN pass[t].sub.tdel ELSE pass[t].sub.del
PassSnapshot(t) == IF cfg.isOplog THEN pass[t].sub.snapTr ELSE pass[t].sub.snapDb

\* The ids of the pass's snapshot from the hint up to the iterator.
PassRun(t) ==
    {k \in DOMAIN PassSnapshot(t) :
        k >= cappedOldestKeyHint /\ (pass[t].iter = NullId \/ k < pass[t].iter)}

ConflictInPass(t) ==
    /\ pc[t] = "pass"
    /\ PassContinues(pass[t])
    /\ ~PassBreaksNotAtConflict(t, pass[t])
    /\ ~registerWriteOK(t, TRUE, pass[t].sub, pass[t].iter)

\* C32: when registerWrite is rejected for a record during a deleter pass, the
\* pass stops at that record without deleting or counting it; the deletions
\* staged before it are committed with their counter adjustments; the pass ends
\* with a normal return to the caller, whose recovery unit is reinstated, and
\* no exception is raised.
ConflictStopsPassKeepingEarlierDeletes ==
    /\ [][\A t \in Writers :
            (ConflictInPass(t) /\ PassStep(t)) =>
                /\ pass'[t] = pass[t]
                /\ pass[t].iter \notin PassStaged(t)
                /\ db' = db /\ numRecords' = numRecords /\ dataSize' = dataSize
                /\ pc'[t] = IF pass[t].docsRemoved > 0 THEN "passCommit"
                            ELSE "passFinish"]_vars
    /\ [][\A t \in Writers :
            (pc[t] = "passCommit" /\ pc'[t] # pc[t]) =>
                /\ pc'[t] = "passFinish"
                /\ DOMAIN db' = DOMAIN db \ PassStaged(t)
                /\ pass[t].iter \notin DOMAIN db \ DOMAIN db'
                /\ numRecords' = numRecords - pass[t].docsRemoved
                /\ dataSize' = dataSize - pass[t].sizeSaved]_vars
    /\ [][\A t \in Writers :
            (pc[t] = "passFinish" /\ pc'[t] # pc[t]) =>
                /\ pc'[t] = "txn"
                /\ pass'[t].raised = "none"
                /\ ru'[t] = ru[t]
                /\ cappedDeleterMutex' = NoThread]_vars

\* A pass that deleted a record and then met one claimed by another
\* transaction has committed: the first record is gone, the claimed one is
\* still there.
ConflictStopsPassKeepingEarlierDeletesWitness ==
    \E t \in Writers :
        /\ pc[t] = "passFinish"
        /\ pass[t].docsRemoved > 0
        /\ PassStaged(t) \cap DOMAIN db = {}
        /\ PassContinues(pass[t])
        /\ ~PassBreaksNotAtConflict(t, pass[t])
        /\ pass[t].iter \in OwnedByOthers(t, TRUE)
        /\ pass[t].iter \in DOMAIN db

\* C33: oldest-key hint soundness. Under any interleaving of deleter passes
\* with inserts that commit, cappedOldestKeyHint never decreases and is never
\* greater than the id of a record that is live or still uncommitted.
HintNeverPassesLiveRecord ==
    /\ [](\A k \in DOMAIN db \cup SeqElems(uncommittedRecords) :
             cappedOldestKeyHint <= k)
    /\ [][cappedOldestKeyHint' >= cappedOldestKeyHint]_vars

\* C34: beside a background deleter thread and with maxDocs = -1, a foreground
\* cappedDeleteAsNeeded call deletes nothing and returns 0: below the slack it
\* returns at once; above it, it tries the deleter mutex, waits for it at most
\* once, returns 0 and holds no mutex afterwards. No foreground thread ever
\* runs a deleter pass.
ForegroundOnlyFeelsBackPressure ==
    /\ [](\A t \in Writers :
            /\ pc[t] \notin {"pass", "passCommit", "passFinish", "lockWait", "lockTimed"}
            /\ cappedDeleterMutex # t
            /\ pass[t].docsRemoved = 0)
    /\ [][\A t \in Writers :
            cappedDeleteAsNeeded(t) =>
                /\ UNCHANGED <<engineVars, storeVars, ru>>
                /\ pc'[t] \in {"txn", "backPressure"}
                /\ pc'[t] = "backPressure" =>
                      /\ dataSize - cfg.cappedMaxSize >=
                            cappedMaxSizeSlackFromSize(cfg.cappedMaxSize)
                      /\ cappedDeleterMutex # NoThread]_vars
    /\ [][\A t \in Writers :
            (pc[t] = "backPressure" /\ pc'[t] # pc[t]) =>
                /\ UNCHANGED <<engineVars, storeVars, ru>>
                /\ pc'[t] = "txn"]_vars

\* A foreground insert found the store beyond the slack and the mutex held by
\* the background thread, waited, and is back in its unit of work; the store
\* is still beyond the slack and nothing has been removed.
ForegroundOnlyFeelsBackPressureWitness ==
    \E t \in Writers :
        /\ pc[t] = "txn"
        /\ pass[t].waited
        /\ dataSize - cfg.cappedMaxSize >= cappedMaxSizeSlackFromSize(cfg.cappedMaxSize)
        /\ cappedMaxSizeSlackFromSize(cfg.cappedMaxSize) > 0
        /\ 1 \in DOMAIN db

\* C35: shutdown terminates. Once joinOplogJournalThreadLoop has set the flag
\* and signalled the condition variable, the journal thread leaves its loop
\* and the join returns, wherever the thread was when the flag was set and
\* provided waitUntilDurable returns; from the flag on, the thread starts no
\* durability wait.
ShutdownTerminates ==
    /\ (journal.join = "joining") ~> (journal.join = "joined" /\ journal.pc = "exited")
    /\ [][(shuttingDown /\ journal.pc # "durable") => journal'.pc # "durable"]_vars
    /\ [][(journal.pc = "exited") => journal'.pc = "exited"]_vars

\* The join has returned from a shutdown that found the journal thread inside
\* waitUntilDurable.
ShutdownTerminatesWitness ==
    /\ journal.join = "joined"
    /\ journal.saw = "durable"
    /\ journal.pc = "exited"

\* C36: in a capped store that is no oplog, under any interleaving of inserts,
\* commits and rollbacks, the uncommitted id list is strictly increasing at all
\* times, and an id is appended only at the end and is greater than every id
\* already in the list.
UncommittedListStrictlyIncreasing ==
    /\ []((cfg.isCapped /\ ~cfg.isOplog) => Increasing(uncommittedRecords))
    /\ [][(cfg.isCapped /\ ~cfg.isOplog
             /\ SeqElems(uncommittedRecords') \ SeqElems(uncommittedRecords) # {}) =>
            /\ Len(uncommittedRecords') = Len(uncommittedRecords) + 1
            /\ Front(uncommittedRecords') = uncommittedRecords
            /\ \A k \in SeqElems(uncommittedRecords) : k < Last(uncommittedRecords')]_vars

\* Two threads hold uncommitted ids in a capped store while an id allocated
\* between theirs has already left the list.
UncommittedListStrictlyIncreasingWitness ==
    /\ cfg.isCapped /\ ~cfg.isOplog
    /\ uncommittedRecords = <<1, 3>>
    /\ \A t \in Writers : ru[t].ins # {}

\* The ids strictly between a and b.
Between(a, b) == {k \in Ids : (a < k /\ k < b) \/ (b < k /\ k < a)}

\* C37: the ids successive next() calls of one cursor return are strictly
\* increasing for a forward cursor and strictly decreasing for a reverse one,
\* across save/restore cycles with snapshot changes and concurrent inserts and
\* deletes; and no record of the cursor's current snapshot lies between two
\* ids returned one after the other.
NextIsMonotoneWithoutGaps ==
    /\ [](\A r \in Readers :
            \A i, j \in 1 .. Len(cur[r].returned) :
                i < j => IF cur[r].forward
                         THEN cur[r].returned[i] < cur[r].returned[j]
                         ELSE cur[r].returned[i] > cur[r].returned[j])
    /\ [][\A r \in Readers :
            (/\ CursorNext(r)
             /\ cur[r].returned # <<>>
             /\ Len(cur'[r].returned) = Len(cur[r].returned) + 1) =>
                Between(Last(cur[r].returned), Last(cur'[r].returned))
                    \cap DOMAIN cur[r].snapDb = {}]_vars

\* A cursor has returned a record, was saved, the record after it was deleted,
\* and after the restore next() returned the one after that.
NextIsMonotoneWithoutGapsWitness ==
    \E r \in Readers :
        /\ cur[r].forward
        /\ cur[r].returned = <<1, 3>>
        /\ cur[r].rest.called
        /\ cur[r].rest.got = <<3>>
        /\ 2 \in hist.removed \/ 2 \notin DOMAIN db

\* The chunks config.chunks holds for a namespace.
ChunksOf(ns) == {c \in catalog.chunks : c.ns = ns}

\* A shardCollection call for a namespace that has chunks in config.chunks
\* begins.
BeginsOverExistingChunks ==
    /\ catalog.call.pc = "idle"
    /\ catalog'.call.pc # "idle"
    /\ ChunksOf(catalog'.call.ns) # {}

\* The call has failed and has written nothing.
FailedWithoutWriting ==
    /\ catalog'.call.pc = "failed"
    /\ catalog'.chunks = catalog.chunks
    /\ catalog'.collections = catalog.collections
    /\ catalog'.changelog = catalog.changelog

CreatedFirstChunks ==
    \/ catalog.call.pc = "done"
    \/ catalog.call.pc = "failed" /\ catalog.call.error = "UpdateFailed"

\* The number of distinct split points of the call.
DistinctPoints ==
    IF catalog.call.initPoints # <<>>
    THEN Cardinality(SeqElems(catalog.call.initPoints))
    ELSE Len(catalog.call.splitPoints)

\* The chunks written so far start at the global minimum, each begins where
\* the one before ends, chunk i has version (1, i) under the epoch of the
\* call, and no other chunk of config.chunks has that epoch.
ChunksChained ==
    LET w == catalog.call.wrote
    IN /\ \A k \in 1 .. Len(w) :
             /\ w[k].ns = catalog.call.ns
             /\ w[k].min = (IF k = 1 THEN globalMin ELSE w[k - 1].max)
             /\ w[k].min < w[k].max
             /\ w[k].version = [major |-> 1, minor |-> k - 1,
                                epoch |-> catalog.call.version.epoch]
       /\ catalog.call.pc # "idle" =>
             \A c \in catalog.chunks :
                c.version.epoch = catalog.call.version.epoch => c \in SeqElems(w)

\* A call that is back from _createFirstChunks has written n + 1 chunks that
\* are cut at the distinct initial points and end at the global maximum, and
\* has the version of the last of them.
ChunksComplete ==
    CreatedFirstChunks =>
        LET w == catalog.call.wrote
        IN /\ Len(w) = DistinctPoints + 1
           /\ w[Len(w)].max = globalMax
           /\ catalog.call.initPoints # <<>> =>
                 {w[k].max : k \in 1 .. Len(w) - 1} = SeqElems(catalog.call.initPoints)
           /\ catalog.call.collVersion = w[Len(w)].version
           /\ SeqElems(w) \subseteq catalog.chunks

\* C39: _createFirstChunks writes exactly n + 1 chunks for n distinct split
\* points (the initial points without duplicates, in order): chunk 0 starts at
\* the global minimum key, the last chunk ends at the global maximum key, each
\* chunk starts where the one before ends, chunk i has version (1, i) under
\* one fresh epoch, and the version returned, which the collection entry gets
\* and which is written only after all the chunks, is that of the last chunk.
FirstChunksPartitionKeySpace ==
    /\ [](ChunksChained /\ ChunksComplete)
    /\ [][catalog'.collections # catalog.collections /\ catalog'.call.pc = "done" =>
             /\ catalog.call.i = DistinctPoints + 1
             /\ catalog'.chunks = catalog.chunks
             /\ catalog'.collections[catalog.call.ns] =
                    [epoch |-> catalog.call.version.epoch,
                     updatedAt |-> catalog.call.wrote[DistinctPoints + 1].version]]_vars

\* A call given the points 3, 1, 3 is done with three chunks, cut at 1 and 3,
\* while the other namespace has chunks of an earlier epoch.
FirstChunksPartitionKeySpaceWitness ==
    /\ catalog.call.pc = "done"
    /\ catalog.call.initPoints = <<3, 1, 3>>
    /\ Len(catalog.call.wrote) = 3
    /\ catalog.call.wrote[2].min = 1 /\ catalog.call.wrote[2].max = 3
    /\ catalog.call.ns \in DOMAIN catalog.collections
    /\ \E c \in catalog.chunks : /\ c.ns # catalog.call.ns
                                  /\ c.version.epoch < catalog.call.version.epoch

\* C40: whatever the initial points, distributeInitialChunks, the document
\* count and the shards, _createFirstChunks gives each chunk to a shard of the
\* registry: the list of candidate shards is never empty and chunk i goes to
\* candidate i mod the size of the list; and when the primary shard is draining
\* and there is another shard, no chunk goes to the primary shard.
ChunksGoToCandidateShards ==
    catalog.call.version.epoch # 0 =>
        LET call == catalog.call
        IN /\ call.shardIds # <<>>
           /\ call.pc # "crashed"
           /\ \A k \in 1 .. Len(call.wrote) :
                 /\ call.wrote[k].shard =
                        call.shardIds[((k - 1) % Len(call.shardIds)) + 1]
                 /\ call.wrote[k].shard \in SeqElems(catalog.shards)
                 /\ call.primaryDraining /\ Len(catalog.shards) > 1 =>
                        call.wrote[k].shard # call.primary

====
